---- MODULE Spec2Model ----
(***************************************************************************)
(* The ConditionalPayment escrow ledger                                    *)
(* (contracts/src/ConditionalPayment.sol) as a state machine.              *)
(*                                                                         *)
(* One action per external function.  A call that reverts leaves the       *)
(* ledger as it was and is recorded, with its error, in lastCall.  The     *)
(* three functions that pay out (verify(true), refundOnTimeout,            *)
(* cancelPayment) write the new status, then hand control to the recipient *)
(* (to.call{value: amount}("")): that is the step _safeTransferBegin.      *)
(* While the recipient runs it may call back into the contract; when it    *)
(* returns (_safeTransferReturn) the call either completes and emits its   *)
(* events, or reverts with TransferFailed and the EVM restores the state   *)
(* the transaction started from.                                           *)
(*                                                                         *)
(* Beside the ledger stands the mirror (frontend/convex): the payments,    *)
(* proofs and verifications tables with their mutations and queries, and   *)
(* the handlers of the pages.  An invocation of a handler is a click, which *)
(* fixes its arguments from what the page shows, the mining of its ledger  *)
(* transaction in whatever state the ledger then is, and after it the      *)
(* mirror mutations, one await at a time.                                  *)
(*                                                                         *)
(* The agent-service (agent-service/src/index.ts) polls the logs at the    *)
(* contract's address through its own ABI; its loop is modelled with the   *)
(* events and the getter's answers as inputs, and in composition with the  *)
(* contract, whose ProofSubmitted event has another signature.             *)
(***************************************************************************)
EXTENDS Integers, Sequences, FiniteSets, TLC

\* ------------------------------------------------------------- bounds
MaxTime == 2
MaxAmount == 2
MaxRejects == 1
\* Handlers of the pages that may be waiting for a mirror mutation at once.
MaxInflight == 2
\* Poll runs of the agent-service that may overlap, and the verify
\* transactions it may have handed to its wallet service and not yet seen sent.
MaxRuns == 2
MaxTxs == 2
\* ProofSubmitted events in the window a poll of the agent-service queries.
MaxEvents == 2

\* ------------------------------------------------------------- values
\* address(0), the accounts that call the contract, and address(this).
ZeroAddr == "0x0"
Addrs == {"alice", "bob", "carol"}
ContractAddr == "this"
\* Every account starts with enough to fund two payments of different amounts.
InitBalance == MaxAmount + 1
\* The ids the model keeps a mapping slot for: 0 is never assigned.
PaymentIds == {0, 1, 2}
\* The ids a run may assign: one payment with every choice of parties (Spec),
\* two payments between fixed parties (SpecTwo).
OnePayment == {1}
TwoPayments == {1, 2}
ConditionHashes == {1}
ProofHashes == {1}

\* enum PaymentStatus
Created == "Created"
Accepted == "Accepted"
Submitted == "Submitted"
Released == "Released"
Refunded == "Refunded"
PaymentStatus == {Created, Accepted, Submitted, Released, Refunded}

\* The value a mapping slot holds before it is written: every field zero.
NoPayment ==
    [id |-> 0, principal |-> ZeroAddr, worker |-> ZeroAddr, verifier |-> ZeroAddr,
     amount |-> 0, conditionHash |-> 0, status |-> Created, createdAt |-> 0,
     deadline |-> 0]

NoFrame == [open |-> FALSE]
NoCall == [op |-> "none", result |-> "ok"]

\* An optional field of a mirror document that has not been written: a text
\* field, and a timestamp (Date.now() is never negative).
Undefined == "undefined"
NoTime == -1
\* What a worker may type as proof, and the days a principal may enter.
ProofTexts == {"draft", "the finished work"}
FormDays == {0, 1}
\* v.optional(v.number()) limit of the listing queries: args.limit ?? 50.
DefaultLimit == 50
\* The agent-service: its wallet's address (wallet.address), the status it
\* waits for (PaymentStatus.Submitted), and the poll runs that may overlap.
AgentAddress == "carol"
PaymentStatusSubmitted == 2
RunIds == 1..MaxRuns
\* A poll run that is not executing, and a run's record of a payment before
\* it has read one.
NoRead == [status |-> NoTime, verifier |-> ZeroAddr]
IdleRun == [pc |-> "idle", events |-> <<>>, next |-> 1, processedPaymentIds |-> {},
            payment |-> NoRead, isApproved |-> FALSE,
            threw |-> FALSE, oracleCalls |-> <<>>, txs |-> <<>>]
\* What the request to the LLM may come to: its answer, an exception, or no
\* request at all for want of an API key.
GeminiOutcomes == {"YES", "NO", "MAYBE", "throws", "no key"}

VARIABLES
    now,             \* block.timestamp
    paymentCounter,  \* uint256 public paymentCounter
    payments,        \* mapping(uint256 => Payment) public payments
    balance,         \* native balance of every address
    events,          \* the event log, by the indexed paymentId
    paidOut,         \* per payment, the value transfers made out of the contract
    locked,          \* ReentrancyGuard: a nonReentrant function is executing
    frame,           \* the external call in progress inside _safeTransfer, if any
    lastCall,        \* the call made in the last step, with its result
    mirrorPayments,  \* table "payments" of the mirror, in order of creation
    mirrorProofs,    \* table "proofs"
    mirrorVerifications,  \* table "verifications"
    inflight,        \* handler invocations under way, each at the await it has reached
    agentRuns,       \* the agent-service's poll runs: where each is, and its locals
    agentTxs,        \* verify transactions the agent has handed to its wallet service
    proofLog         \* the logs at the address the agent queries, in block order

ledger == <<paymentCounter, payments, balance, events, paidOut>>
mirror == <<mirrorPayments, mirrorProofs, mirrorVerifications>>
pages == <<mirrorPayments, mirrorProofs, mirrorVerifications, inflight>>
agent == <<agentRuns, agentTxs, proofLog>>
offchain == <<mirrorPayments, mirrorProofs, mirrorVerifications, inflight, agentRuns, agentTxs,
              proofLog>>
vars == <<now, paymentCounter, payments, balance, events, paidOut, locked, frame, lastCall,
          mirrorPayments, mirrorProofs, mirrorVerifications, inflight, agentRuns, agentTxs,
          proofLog>>

Init ==
    /\ now = 1
    /\ paymentCounter = 0
    /\ payments = [i \in PaymentIds |-> NoPayment]
    /\ balance = [a \in Addrs \cup {ContractAddr, ZeroAddr} |->
                    IF a \in Addrs THEN InitBalance ELSE 0]
    /\ events = [i \in PaymentIds |-> <<>>]
    /\ paidOut = [i \in PaymentIds |-> <<>>]
    /\ locked = FALSE
    /\ frame = NoFrame
    /\ lastCall = NoCall
    /\ mirrorPayments = <<>>
    /\ mirrorProofs = <<>>
    /\ mirrorVerifications = <<>>
    /\ inflight = {}
    /\ agentRuns = [r \in RunIds |-> IdleRun]
    /\ agentTxs = <<>>
    /\ proofLog = <<>>

\* ------------------------------------------------------------ helpers
\* A revert: nothing is written, the caller sees the error.
Revert(call, err) ==
    /\ lastCall' = [op |-> call.op, result |-> err]
    /\ UNCHANGED <<now, paymentCounter, payments, balance, events, paidOut, locked, frame>>

Emit(log, id, evs) == [log EXCEPT ![id] = @ \o evs]

\* The payment records as of the last completed transaction: what a transfer
\* in progress has written is provisional until the recipient returns.
Committed == IF frame.open THEN frame.saved.payments ELSE payments

\* The events of the last completed transaction.
CommittedEvents == IF frame.open THEN frame.saved.events ELSE events

\* Number of PaymentVerified(false) events of a payment.
Rejections(id) ==
    Cardinality({k \in 1..Len(events[id]) :
        events[id][k].name = "PaymentVerified" /\ ~events[id][k].approved})

\* --------------------------------------------------- precondition checks
\* Each returns the first error the function reverts with, or "ok".
\* Mutant: createPayment that admits a deadline equal to the current time.
createPaymentCheckLate(sender, value, _verifier, _deadline) ==
    IF locked THEN "ReentrancyGuardReentrantCall"
    ELSE IF value = 0 THEN "InvalidAmount"
    ELSE IF _deadline < now THEN "InvalidDeadline"
    ELSE IF _verifier = ZeroAddr THEN "InvalidAddress"
    ELSE "ok"

createPaymentCheck(sender, value, _verifier, _deadline) ==
    IF locked THEN "ReentrancyGuardReentrantCall"
    ELSE IF value = 0 THEN "InvalidAmount"
    ELSE IF _deadline <= now THEN "InvalidDeadline"
    ELSE IF _verifier = ZeroAddr THEN "InvalidAddress"
    ELSE "ok"

\* Mutant: acceptPayment that refuses while another payment is Accepted.
acceptPaymentCheckOneAtATime(sender, _paymentId) ==
    LET payment == payments[_paymentId] IN
    IF payment.id = 0 THEN "PaymentNotFound"
    ELSE IF payment.status # Created THEN "InvalidStatus"
    ELSE IF payment.deadline <= now THEN "DeadlineExpired"
    ELSE IF sender = payment.principal THEN "InvalidAddress"
    ELSE IF \E i \in PaymentIds \ {_paymentId} : payments[i].status = Accepted
         THEN "InvalidStatus"
    ELSE "ok"

\* Mutant: acceptPayment that lets the principal accept.
acceptPaymentCheckAnyCaller(sender, _paymentId) ==
    LET payment == payments[_paymentId] IN
    IF payment.id = 0 THEN "PaymentNotFound"
    ELSE IF payment.status # Created THEN "InvalidStatus"
    ELSE IF payment.deadline <= now THEN "DeadlineExpired"
    ELSE "ok"

\* Mutant: acceptPayment without its status check.
acceptPaymentCheckNoStatus(sender, _paymentId) ==
    LET payment == payments[_paymentId] IN
    IF payment.id = 0 THEN "PaymentNotFound"
    ELSE IF payment.deadline <= now THEN "DeadlineExpired"
    ELSE IF sender = payment.principal THEN "InvalidAddress"
    ELSE "ok"

acceptPaymentCheck(sender, _paymentId) ==
    LET payment == payments[_paymentId] IN
    IF payment.id = 0 THEN "PaymentNotFound"
    ELSE IF payment.status # Created THEN "InvalidStatus"
    ELSE IF payment.deadline <= now THEN "DeadlineExpired"
    ELSE IF sender = payment.principal THEN "InvalidAddress"
    ELSE "ok"

\* Mutant: submitProof without its deadline check.
submitProofCheckNoDeadline(sender, _paymentId) ==
    LET payment == payments[_paymentId] IN
    IF payment.id = 0 THEN "PaymentNotFound"
    ELSE IF payment.worker # sender THEN "NotAuthorized"
    ELSE IF payment.status # Accepted THEN "InvalidStatus"
    ELSE "ok"

\* Mutant: submitProof that looks at the status before the caller.
submitProofCheckStatusFirst(sender, _paymentId) ==
    LET payment == payments[_paymentId] IN
    IF payment.id = 0 THEN "PaymentNotFound"
    ELSE IF payment.status # Accepted THEN "InvalidStatus"
    ELSE IF payment.worker # sender THEN "NotAuthorized"
    ELSE IF payment.deadline <= now THEN "DeadlineExpired"
    ELSE "ok"

submitProofCheck(sender, _paymentId) ==
    LET payment == payments[_paymentId] IN
    IF payment.id = 0 THEN "PaymentNotFound"
    ELSE IF payment.worker # sender THEN "NotAuthorized"
    ELSE IF payment.status # Accepted THEN "InvalidStatus"
    ELSE IF payment.deadline <= now THEN "DeadlineExpired"
    ELSE "ok"

\* Mutant: verify without its status check.
verifyCheckNoStatus(sender, _paymentId) ==
    LET payment == payments[_paymentId] IN
    IF locked THEN "ReentrancyGuardReentrantCall"
    ELSE IF payment.id = 0 THEN "PaymentNotFound"
    ELSE IF sender # payment.verifier THEN "NotAuthorized"
    ELSE "ok"

\* Mutant: verify that refuses once the deadline has passed.
verifyCheckBeforeDeadline(sender, _paymentId) ==
    LET payment == payments[_paymentId] IN
    IF locked THEN "ReentrancyGuardReentrantCall"
    ELSE IF payment.id = 0 THEN "PaymentNotFound"
    ELSE IF sender # payment.verifier THEN "NotAuthorized"
    ELSE IF payment.status # Submitted THEN "InvalidStatus"
    ELSE IF payment.deadline <= now THEN "DeadlineExpired"
    ELSE "ok"

\* Mutant: verify without nonReentrant.
verifyCheckUnguarded(sender, _paymentId) ==
    LET payment == payments[_paymentId] IN
    IF payment.id = 0 THEN "PaymentNotFound"
    ELSE IF sender # payment.verifier THEN "NotAuthorized"
    ELSE IF payment.status # Submitted THEN "InvalidStatus"
    ELSE "ok"

verifyCheck(sender, _paymentId) ==
    LET payment == payments[_paymentId] IN
    IF locked THEN "ReentrancyGuardReentrantCall"
    ELSE IF payment.id = 0 THEN "PaymentNotFound"
    ELSE IF sender # payment.verifier THEN "NotAuthorized"
    ELSE IF payment.status # Submitted THEN "InvalidStatus"
    ELSE "ok"

\* Mutant: refundOnTimeout that refunds only payments nobody accepted.
refundOnTimeoutCheckOnlyCreated(sender, _paymentId) ==
    LET payment == payments[_paymentId] IN
    IF locked THEN "ReentrancyGuardReentrantCall"
    ELSE IF payment.id = 0 THEN "PaymentNotFound"
    ELSE IF payment.status # Created THEN "InvalidStatus"
    ELSE IF payment.deadline > now THEN "DeadlineNotExpired"
    ELSE "ok"

\* Mutant: refundOnTimeout without its check for a terminal status.
refundOnTimeoutCheckNoStatus(sender, _paymentId) ==
    LET payment == payments[_paymentId] IN
    IF locked THEN "ReentrancyGuardReentrantCall"
    ELSE IF payment.id = 0 THEN "PaymentNotFound"
    ELSE IF payment.deadline > now THEN "DeadlineNotExpired"
    ELSE "ok"

\* Mutant: refundOnTimeout without its deadline check.
refundOnTimeoutCheckNoDeadline(sender, _paymentId) ==
    LET payment == payments[_paymentId] IN
    IF locked THEN "ReentrancyGuardReentrantCall"
    ELSE IF payment.id = 0 THEN "PaymentNotFound"
    ELSE IF payment.status = Released \/ payment.status = Refunded THEN "InvalidStatus"
    ELSE "ok"

\* Mutant: refundOnTimeout that still refuses at now = deadline.
refundOnTimeoutCheckLate(sender, _paymentId) ==
    LET payment == payments[_paymentId] IN
    IF locked THEN "ReentrancyGuardReentrantCall"
    ELSE IF payment.id = 0 THEN "PaymentNotFound"
    ELSE IF payment.status = Released \/ payment.status = Refunded THEN "InvalidStatus"
    ELSE IF payment.deadline >= now THEN "DeadlineNotExpired"
    ELSE "ok"

refundOnTimeoutCheck(sender, _paymentId) ==
    LET payment == payments[_paymentId] IN
    IF locked THEN "ReentrancyGuardReentrantCall"
    ELSE IF payment.id = 0 THEN "PaymentNotFound"
    ELSE IF payment.status = Released \/ payment.status = Refunded THEN "InvalidStatus"
    ELSE IF payment.deadline > now THEN "DeadlineNotExpired"
    ELSE "ok"

\* Mutant: cancelPayment without its caller check.
cancelPaymentCheckNoAuth(sender, _paymentId) ==
    LET payment == payments[_paymentId] IN
    IF locked THEN "ReentrancyGuardReentrantCall"
    ELSE IF payment.id = 0 THEN "PaymentNotFound"
    ELSE IF payment.status # Created THEN "InvalidStatus"
    ELSE "ok"

\* Mutant: cancelPayment without its status check.
cancelPaymentCheckNoStatus(sender, _paymentId) ==
    LET payment == payments[_paymentId] IN
    IF locked THEN "ReentrancyGuardReentrantCall"
    ELSE IF payment.id = 0 THEN "PaymentNotFound"
    ELSE IF sender # payment.principal THEN "NotAuthorized"
    ELSE "ok"

cancelPaymentCheck(sender, _paymentId) ==
    LET payment == payments[_paymentId] IN
    IF locked THEN "ReentrancyGuardReentrantCall"
    ELSE IF payment.id = 0 THEN "PaymentNotFound"
    ELSE IF sender # payment.principal THEN "NotAuthorized"
    ELSE IF payment.status # Created THEN "InvalidStatus"
    ELSE "ok"

\* ------------------------------------------------------------ transfer
\* The events a paying function emits once _safeTransfer has returned.
\* Mutant: a release that emits PaymentReleased without PaymentVerified.
PayoutEventsReleasedOnly(call, payment) ==
    IF call.op = "verify"
    THEN << [name |-> "PaymentReleased", paymentId |-> payment.id,
             to |-> payment.worker, amount |-> payment.amount] >>
    ELSE << [name |-> "PaymentRefunded", paymentId |-> payment.id,
             to |-> payment.principal, amount |-> payment.amount] >>

PayoutEvents(call, payment) ==
    IF call.op = "verify"
    THEN << [name |-> "PaymentReleased", paymentId |-> payment.id,
             to |-> payment.worker, amount |-> payment.amount],
            [name |-> "PaymentVerified", paymentId |-> payment.id, approved |-> TRUE] >>
    ELSE << [name |-> "PaymentRefunded", paymentId |-> payment.id,
             to |-> payment.principal, amount |-> payment.amount] >>

\* Mutant: the failure of the call is ignored after the status was written
\* (the value comes back, the status stays).
RolledBackKeepsStatus(saved) == [saved EXCEPT !.payments = payments]

\* Mutant: the status is restored by hand and the value sent is not.
RolledBackKeepsBalance(saved) == [saved EXCEPT !.balance = balance]

\* What a failed to.call leaves behind: the revert restores the state the
\* transaction started from.
RolledBack(saved) == saved

\* payment.status = newStatus; _safeTransfer(to, amount): the status is
\* written, the value leaves the contract and the recipient starts to run.
\* With less than `amount` in the contract the call fails at once.
_safeTransferBegin(call, _paymentId, newStatus, to, amount) ==
    IF balance[ContractAddr] < amount
    THEN /\ lastCall' = [call EXCEPT !.result = "TransferFailed"]
         /\ UNCHANGED <<now, paymentCounter, payments, balance, events, paidOut, locked, frame>>
    ELSE
    /\ payments' = [payments EXCEPT ![_paymentId].status = newStatus]
    /\ balance' = [balance EXCEPT ![ContractAddr] = @ - amount, ![to] = @ + amount]
    /\ paidOut' = [paidOut EXCEPT ![_paymentId] = Append(@, [to |-> to, value |-> amount])]
    /\ locked' = TRUE
    /\ frame' = [open |-> TRUE, call |-> call, id |-> _paymentId,
                 saved |-> [payments |-> payments, balance |-> balance,
                            events |-> events, paidOut |-> paidOut]]
    /\ lastCall' = [call EXCEPT !.result = "pending"]
    /\ UNCHANGED <<now, paymentCounter, events>>

\* The recipient returns: (bool success, ) = to.call{value: amount}("").
_safeTransferReturn(success) ==
    /\ frame.open
    /\ IF success
       THEN /\ events' = Emit(events, frame.id, PayoutEvents(frame.call, payments[frame.id]))
            /\ lastCall' = [frame.call EXCEPT !.result = "ok"]
            /\ UNCHANGED <<payments, balance, paidOut>>
       ELSE /\ payments' = RolledBack(frame.saved).payments
            /\ balance' = RolledBack(frame.saved).balance
            /\ events' = RolledBack(frame.saved).events
            /\ paidOut' = RolledBack(frame.saved).paidOut
            /\ lastCall' = [frame.call EXCEPT !.result = "TransferFailed"]
    /\ locked' = FALSE
    /\ frame' = NoFrame
    /\ UNCHANGED <<now, paymentCounter>>

\* ------------------------------------------------------------ functions
\* Mutant: createPayment that does not advance paymentCounter.
createPaymentNoIncrement(sender, value, _conditionHash, _verifier, _deadline) ==
    LET call == [op |-> "createPayment", sender |-> sender, id |-> 0, result |-> "ok"]
        err == createPaymentCheck(sender, value, _verifier, _deadline)
        paymentId == paymentCounter + 1
    IN
    IF err # "ok" THEN Revert(call, err)
    ELSE
    /\ paymentCounter' = paymentCounter
    /\ payments' = [payments EXCEPT ![paymentId] =
            [id |-> paymentId, principal |-> sender, worker |-> ZeroAddr,
             verifier |-> _verifier, amount |-> value,
             conditionHash |-> _conditionHash, status |-> Created,
             createdAt |-> now, deadline |-> _deadline]]
    /\ balance' = [balance EXCEPT ![sender] = @ - value, ![ContractAddr] = @ + value]
    /\ events' = Emit(events, paymentId,
            << [name |-> "PaymentCreated", paymentId |-> paymentId,
                principal |-> sender, verifier |-> _verifier, amount |-> value,
                conditionHash |-> _conditionHash, deadline |-> _deadline] >>)
    /\ lastCall' = [call EXCEPT !.id = paymentId]
    /\ UNCHANGED <<now, paidOut, locked, frame>>

createPayment(sender, value, _conditionHash, _verifier, _deadline) ==
    LET call == [op |-> "createPayment", sender |-> sender, id |-> 0, result |-> "ok"]
        err == createPaymentCheck(sender, value, _verifier, _deadline)
        paymentId == paymentCounter + 1
    IN
    IF err # "ok" THEN Revert(call, err)
    ELSE
    /\ paymentCounter' = paymentId
    /\ payments' = [payments EXCEPT ![paymentId] =
            [id |-> paymentId, principal |-> sender, worker |-> ZeroAddr,
             verifier |-> _verifier, amount |-> value,
             conditionHash |-> _conditionHash, status |-> Created,
             createdAt |-> now, deadline |-> _deadline]]
    /\ balance' = [balance EXCEPT ![sender] = @ - value, ![ContractAddr] = @ + value]
    /\ events' = Emit(events, paymentId,
            << [name |-> "PaymentCreated", paymentId |-> paymentId,
                principal |-> sender, verifier |-> _verifier, amount |-> value,
                conditionHash |-> _conditionHash, deadline |-> _deadline] >>)
    /\ lastCall' = [call EXCEPT !.id = paymentId]
    /\ UNCHANGED <<now, paidOut, locked, frame>>

\* Mutant: acceptPayment that does not record the worker.
acceptPaymentNoWorker(sender, _paymentId) ==
    LET call == [op |-> "acceptPayment", sender |-> sender, id |-> _paymentId, result |-> "ok"]
        err == acceptPaymentCheck(sender, _paymentId)
    IN
    IF err # "ok" THEN Revert(call, err)
    ELSE
    /\ payments' = [payments EXCEPT ![_paymentId].status = Accepted]
    /\ events' = Emit(events, _paymentId,
            << [name |-> "PaymentAccepted", paymentId |-> _paymentId, worker |-> sender] >>)
    /\ lastCall' = call
    /\ UNCHANGED <<now, paymentCounter, balance, paidOut, locked, frame>>

acceptPayment(sender, _paymentId) ==
    LET call == [op |-> "acceptPayment", sender |-> sender, id |-> _paymentId, result |-> "ok"]
        err == acceptPaymentCheck(sender, _paymentId)
    IN
    IF err # "ok" THEN Revert(call, err)
    ELSE
    /\ payments' = [payments EXCEPT ![_paymentId].worker = sender,
                                    ![_paymentId].status = Accepted]
    /\ events' = Emit(events, _paymentId,
            << [name |-> "PaymentAccepted", paymentId |-> _paymentId, worker |-> sender] >>)
    /\ lastCall' = call
    /\ UNCHANGED <<now, paymentCounter, balance, paidOut, locked, frame>>

submitProof(sender, _paymentId, _proofHash) ==
    LET call == [op |-> "submitProof", sender |-> sender, id |-> _paymentId, result |-> "ok"]
        err == submitProofCheck(sender, _paymentId)
    IN
    IF err # "ok" THEN Revert(call, err)
    ELSE
    /\ payments' = [payments EXCEPT ![_paymentId].status = Submitted]
    /\ events' = Emit(events, _paymentId,
            << [name |-> "ProofSubmitted", paymentId |-> _paymentId,
                proofHash |-> _proofHash] >>)
    /\ lastCall' = call
    /\ UNCHANGED <<now, paymentCounter, balance, paidOut, locked, frame>>

\* Mutant: verify that transfers the amount to the worker on a rejection too.
verifyPaysOnReject(sender, _paymentId, _approved) ==
    LET call == [op |-> "verify", sender |-> sender, id |-> _paymentId,
                 approved |-> _approved, result |-> "ok"]
        err == verifyCheck(sender, _paymentId)
        payment == payments[_paymentId]
    IN
    IF err # "ok" THEN Revert(call, err)
    ELSE _safeTransferBegin(call, _paymentId,
                            IF _approved THEN Released ELSE Accepted,
                            payment.worker, payment.amount)

\* Mutant: verify that frees the payment for another worker on a rejection.
verifyRejectClearsWorker(sender, _paymentId, _approved) ==
    LET call == [op |-> "verify", sender |-> sender, id |-> _paymentId,
                 approved |-> _approved, result |-> "ok"]
        err == verifyCheck(sender, _paymentId)
        payment == payments[_paymentId]
    IN
    IF err # "ok" THEN Revert(call, err)
    ELSE IF _approved
    THEN _safeTransferBegin(call, _paymentId, Released, payment.worker, payment.amount)
    ELSE
    /\ payments' = [payments EXCEPT ![_paymentId].status = Accepted,
                                    ![_paymentId].worker = ZeroAddr]
    /\ events' = Emit(events, _paymentId,
            << [name |-> "PaymentVerified", paymentId |-> _paymentId,
                approved |-> FALSE] >>)
    /\ lastCall' = call
    /\ UNCHANGED <<now, paymentCounter, balance, paidOut, locked, frame>>

verify(sender, _paymentId, _approved) ==
    LET call == [op |-> "verify", sender |-> sender, id |-> _paymentId,
                 approved |-> _approved, result |-> "ok"]
        err == verifyCheck(sender, _paymentId)
        payment == payments[_paymentId]
    IN
    IF err # "ok" THEN Revert(call, err)
    ELSE IF _approved
    THEN _safeTransferBegin(call, _paymentId, Released, payment.worker, payment.amount)
    ELSE
    /\ payments' = [payments EXCEPT ![_paymentId].status = Accepted]
    /\ events' = Emit(events, _paymentId,
            << [name |-> "PaymentVerified", paymentId |-> _paymentId,
                approved |-> FALSE] >>)
    /\ lastCall' = call
    /\ UNCHANGED <<now, paymentCounter, balance, paidOut, locked, frame>>

refundOnTimeout(sender, _paymentId) ==
    LET call == [op |-> "refundOnTimeout", sender |-> sender, id |-> _paymentId, result |-> "ok"]
        err == refundOnTimeoutCheck(sender, _paymentId)
        payment == payments[_paymentId]
    IN
    IF err # "ok" THEN Revert(call, err)
    ELSE _safeTransferBegin(call, _paymentId, Refunded, payment.principal, payment.amount)

cancelPayment(sender, _paymentId) ==
    LET call == [op |-> "cancelPayment", sender |-> sender, id |-> _paymentId, result |-> "ok"]
        err == cancelPaymentCheck(sender, _paymentId)
        payment == payments[_paymentId]
    IN
    IF err # "ok" THEN Revert(call, err)
    ELSE _safeTransferBegin(call, _paymentId, Refunded, payment.principal, payment.amount)

\* A new block: block.timestamp advances.  Not inside a transaction.
Tick ==
    /\ ~frame.open
    /\ now < MaxTime
    /\ now' = now + 1
    /\ lastCall' = NoCall
    /\ UNCHANGED <<paymentCounter, payments, balance, events, paidOut, locked, frame>>

\* -------------------------------------------------------- specification
\* Every call but createPayment, by every account.  While a transfer is in
\* progress these are the recipient's re-entrant calls.  The verifier rejects
\* a payment's proofs at most MaxRejects times.
Calls ==
    \/ \E s \in Addrs, id \in PaymentIds : acceptPayment(s, id) /\ UNCHANGED offchain
    \/ \E s \in Addrs, id \in PaymentIds, p \in ProofHashes :
            submitProof(s, id, p) /\ UNCHANGED offchain
    \/ \E s \in Addrs, id \in PaymentIds, a \in BOOLEAN :
            /\ a \/ Rejections(id) < MaxRejects
            /\ verify(s, id, a)
            /\ UNCHANGED offchain
    \/ \E s \in Addrs, id \in PaymentIds : refundOnTimeout(s, id) /\ UNCHANGED offchain
    \/ \E s \in Addrs, id \in PaymentIds : cancelPayment(s, id) /\ UNCHANGED offchain
    \/ \E ok \in BOOLEAN : _safeTransferReturn(ok) /\ UNCHANGED offchain
    \/ Tick /\ UNCHANGED offchain

\* createPayment with its inputs drawn from the given sets, while an id of
\* `ids` is left.  A caller cannot send more than it holds.
Creates(ids, senders, amounts, verifiers, deadlines) ==
    \E s \in senders, v \in amounts, h \in ConditionHashes,
       ver \in verifiers, d \in deadlines :
        /\ v <= balance[s]
        /\ paymentCounter + 1 \in ids
        /\ createPayment(s, v, h, ver, d)
        /\ UNCHANGED offchain

\* One payment, every choice of caller and input.
Next ==
    \/ Creates(OnePayment, Addrs, 0..MaxAmount, {ZeroAddr} \cup Addrs, 0..(MaxTime + 1))
    \/ Calls

Spec == Init /\ [][Next]_vars

\* Two payments funded by alice and verified by carol, of amounts 1 and 2,
\* both expiring at MaxTime.
NextTwo ==
    \/ Creates(TwoPayments, {"alice"}, {paymentCounter + 1}, {"carol"}, {MaxTime})
    \/ Calls

SpecTwo == Init /\ [][NextTwo]_vars

\* A refundOnTimeout that passes its checks.
RefundPasses ==
    \E s \in Addrs, id \in PaymentIds :
        /\ refundOnTimeoutCheck(s, id) = "ok"
        /\ refundOnTimeout(s, id)
        /\ UNCHANGED offchain

\* The principal's account accepts the transfer of a refundOnTimeout.
PrincipalPaid ==
    /\ frame.open
    /\ frame.call.op = "refundOnTimeout"
    /\ _safeTransferReturn(TRUE)
    /\ UNCHANGED offchain

\* Time passes between transactions; a transfer's call returns; a
\* refundOnTimeout that would pass is eventually sent; the principal's
\* account eventually accepts its refund.
Fairness ==
    /\ SF_vars(Tick /\ UNCHANGED offchain)
    /\ WF_vars(\E ok \in BOOLEAN : _safeTransferReturn(ok) /\ UNCHANGED offchain)
    /\ SF_vars(RefundPasses)
    /\ SF_vars(PrincipalPaid)

\* One payment whose deadline lies within the time the model covers.
NextFair ==
    \/ Creates(OnePayment, Addrs, 0..MaxAmount, {ZeroAddr} \cup Addrs, 0..MaxTime)
    \/ Calls

SpecFair == Init /\ [][NextFair]_vars /\ Fairness

\* ----------------------------------------------------------------- mirror
\* paymentId.toString() and Number(payment.onChainId).
OnChainIdOf(paymentId) == ToString(paymentId)
NumberOf(onChainId) ==
    IF \E n \in PaymentIds : ToString(n) = onChainId
    THEN CHOOSE n \in PaymentIds : ToString(n) = onChainId
    ELSE 0

\* ethers id(text): the keccak256 digest of the text, a bytes32 word that
\* differs from text to text and from the hashes of ProofHashes.
HashOf(text) ==
    CASE text = "draft" -> 2
      [] text = "the finished work" -> 3
      [] OTHER -> 4

\* The first `limit` elements of a sequence: .take(limit).
Take(seq, limit) == SubSeq(seq, 1, IF Len(seq) < limit THEN Len(seq) ELSE limit)

\* A sequence in the opposite order: .order("desc").
RECURSIVE Reversed(_)
Reversed(seq) ==
    IF seq = <<>> THEN <<>> ELSE Append(Reversed(Tail(seq)), Head(seq))

\* The documents of a table whose field `field` has the value `value`, by
\* _id, oldest first: the order of an index when nothing else is asked.
RECURSIVE MatchingFrom(_, _, _, _)
MatchingFrom(table, field, value, i) ==
    IF i > Len(table) THEN <<>>
    ELSE IF table[i][field] = value THEN <<i>> \o MatchingFrom(table, field, value, i + 1)
    ELSE MatchingFrom(table, field, value, i + 1)

Matching(table, field, value) == MatchingFrom(table, field, value, 1)

\* .withIndex("by_on_chain_id", q => q.eq("onChainId", onChainId)).first():
\* the _id of the oldest document with that onChainId, 0 for null.
getByOnChainId(table, onChainId) ==
    LET found == Matching(table, "onChainId", onChainId)
    IN IF found = <<>> THEN 0 ELSE Head(found)

\* payments.create: ctx.db.insert("payments", {...args, status, createdAt}).
paymentsCreate(table, args, time) ==
    Append(table,
        [onChainId |-> args.onChainId, principalAddress |-> args.principalAddress,
         verifierAddress |-> args.verifierAddress, amount |-> args.amount,
         conditionHash |-> args.conditionHash, deadline |-> args.deadline,
         status |-> Created, createdAt |-> time,
         workerAddress |-> Undefined, acceptedAt |-> NoTime,
         submittedAt |-> NoTime, verifiedAt |-> NoTime,
         releasedAt |-> NoTime])

\* payments.accept; it throws, and writes nothing, when no document is found.
paymentsAccept(table, args, time) ==
    LET i == getByOnChainId(table, args.onChainId) IN
    IF i = 0 THEN table
    ELSE [table EXCEPT ![i] = [@ EXCEPT !.workerAddress = args.workerAddress,
                                         !.status = Accepted,
                                         !.acceptedAt = time]]

\* payments.markSubmitted
paymentsMarkSubmitted(table, args, time) ==
    LET i == getByOnChainId(table, args.onChainId) IN
    IF i = 0 THEN table
    ELSE [table EXCEPT ![i] = [@ EXCEPT !.status = Submitted, !.submittedAt = time]]

\* payments.updateAfterVerification
paymentsUpdateAfterVerification(table, args, time) ==
    LET i == getByOnChainId(table, args.onChainId) IN
    IF i = 0 THEN table
    ELSE IF args.approved
    THEN [table EXCEPT ![i] = [@ EXCEPT !.status = Released, !.verifiedAt = time,
                                        !.releasedAt = time]]
    ELSE [table EXCEPT ![i] = [@ EXCEPT !.status = Accepted, !.verifiedAt = time]]

\* payments.markRefunded
paymentsMarkRefunded(table, args) ==
    LET i == getByOnChainId(table, args.onChainId) IN
    IF i = 0 THEN table
    ELSE [table EXCEPT ![i] = [@ EXCEPT !.status = Refunded]]

\* proofs.create
proofsCreate(table, args, time) ==
    Append(table,
        [paymentId |-> args.paymentId, onChainPaymentId |-> args.onChainPaymentId,
         proofType |-> "text", proofText |-> args.proofText,
         proofHash |-> args.proofHash, submittedBy |-> args.submittedBy,
         submittedAt |-> time])

\* verifications.create
verificationsCreate(table, args, time) ==
    Append(table,
        [paymentId |-> args.paymentId, onChainPaymentId |-> args.onChainPaymentId,
         approved |-> args.approved, verifiedAt |-> time])

\* payments.listSubmittedWithProofs: the Submitted payments, newest first, each
\* with the proof that
\* .query("proofs").withIndex("by_payment", q => q.eq("paymentId", _id)).first()
\* finds.
listSubmittedWithProofs(table, proofs, limit) ==
    LET ids == Take(Reversed(Matching(table, "status", Submitted)), limit)
        Joined(i) ==
            LET of == Matching(proofs, "paymentId", i) IN
            [_id |-> i, onChainId |-> table[i].onChainId, status |-> table[i].status,
             proofHash |-> IF of = <<>> THEN Undefined ELSE proofs[Head(of)].proofHash,
             proofText |-> IF of = <<>> THEN Undefined ELSE proofs[Head(of)].proofText]
    IN [k \in 1..Len(ids) |-> Joined(ids[k])]

\* The handler invocations (tabs) that may be under way at a time.
Tabs == 1..MaxInflight

\* The tab a new invocation gets: the least one that is free.
FreeTab ==
    CHOOSE t \in Tabs :
        /\ \A d \in inflight : d.tab # t
        /\ \A u \in Tabs : u < t => \E d \in inflight : d.tab = u

\* An invocation of a handler, with what its closure holds: the mirror
\* document and the form of the render it was clicked on.  `h` is the await it
\* is at: "tx" from the click until the transaction is mined, "awaitTx" while
\* the payout of its transaction is in progress, then the mirror mutation it
\* has to call.
Due(op, paymentId, onChainId, account, text, approved, amount, verifier, deadline) ==
    [tab |-> FreeTab, h |-> "tx", op |-> op, paymentId |-> paymentId,
     onChainId |-> onChainId, account |-> account, text |-> text, approved |-> approved,
     amount |-> amount, verifier |-> verifier, deadline |-> deadline]

\* Whether a handler may be clicked: between transactions, while a tab is
\* free.
HandlerMayStart == ~frame.open /\ Cardinality(inflight) < MaxInflight

\* A click changes nothing on the ledger or in the mirror.
Click(d) ==
    /\ HandlerMayStart
    /\ inflight' = inflight \cup {d}
    /\ UNCHANGED <<now, paymentCounter, payments, balance, events, paidOut, locked, frame,
                   lastCall>>
    /\ UNCHANGED mirror
    /\ UNCHANGED agent

\* create/page.tsx handleSubmit up to `await sdk.createPayment(...)`: the
\* deadline is `days` days from the click, the condition is committed to by
\* its digest.  A create is clicked while an id of the model is left.
handleSubmit(account, amount, condition, verifier, days) ==
    /\ paymentCounter
          + Cardinality({d \in inflight : d.op = "createPayment" /\ d.h = "tx"}) + 1
          \in OnePayment
    /\ Click(Due("createPayment", 0, "0", account, condition, FALSE, amount, verifier,
                 now + days))

\* payment page handleAccept up to `await sdk.acceptPayment(...)`.  The button
\* is shown on a mirror payment that is Created, to anyone but its principal.
handleAccept(account, onChainId) ==
    LET i == getByOnChainId(mirrorPayments, onChainId) IN
    /\ i # 0
    /\ mirrorPayments[i].status = Created
    /\ mirrorPayments[i].principalAddress # account
    /\ Click(Due("acceptPayment", i, onChainId, account, "", FALSE, 0, ZeroAddr, 0))

\* payment page handleSubmitProof up to `await sdk.submitProof(...)`.  The form
\* is shown on a mirror payment that is Accepted, to its worker.
handleSubmitProof(account, onChainId, proofText) ==
    LET i == getByOnChainId(mirrorPayments, onChainId) IN
    /\ i # 0
    /\ mirrorPayments[i].status = Accepted
    /\ mirrorPayments[i].workerAddress = account
    /\ Click(Due("submitProof", i, onChainId, account, proofText, FALSE, 0, ZeroAddr, 0))

\* agent/page.tsx handleVerify up to `await sdk.verify(...)`, on one of the
\* payments that listSubmittedWithProofs shows.
handleVerify(account, k, approved) ==
    LET shown == listSubmittedWithProofs(mirrorPayments, mirrorProofs, DefaultLimit) IN
    /\ k \in 1..Len(shown)
    /\ Click(Due("verify", shown[k]._id, shown[k].onChainId, account, "", approved, 0,
                 ZeroAddr, 0))

\* Mutant: handleSubmitProof calls payments.markSubmitted without storing the
\* proof first.
FirstMutationNoProof(op) ==
    CASE op = "createPayment" -> "payments.create"
      [] op = "acceptPayment" -> "payments.accept"
      [] op = "submitProof" -> "payments.markSubmitted"
      [] op = "verify" -> "verifications.create"

\* The mirror mutation a handler calls first once its transaction is
\* confirmed.
FirstMutation(op) ==
    CASE op = "createPayment" -> "payments.create"
      [] op = "acceptPayment" -> "payments.accept"
      [] op = "submitProof" -> "proofs.create"
      [] op = "verify" -> "verifications.create"

\* The id handleSubmit takes from the receipt of its createPayment: that of
\* the PaymentCreated log when a log parses as one through the interface of
\* the SDK (`parsed`), and "0", the value the variable starts with, when none
\* does.  The ABI the SDK parses with is not among the files, so either may
\* be the case.
paymentIdFromLogs(call, parsed) == IF parsed THEN OnChainIdOf(call.id) ELSE "0"

\* What `await tx.wait()` leaves of the invocation: it goes on to its first
\* mirror mutation when the transaction is confirmed (handleSubmit with the
\* id it takes from the receipt), waits while a payout is in progress, and
\* ends in its catch when the transaction reverts.
AfterTx(d, call, parsed) ==
    IF call.result = "ok"
    THEN {[d EXCEPT !.h = FirstMutation(d.op),
                    !.onChainId = IF d.op = "createPayment"
                                  THEN paymentIdFromLogs(call, parsed) ELSE @]}
    ELSE IF call.result = "pending" THEN {[d EXCEPT !.h = "awaitTx"]}
    ELSE {}

\* The transaction a handler sent is mined, in the state the ledger then has
\* and at the time it then is; whatever happened since the click has
\* happened.  The verifier rejects a payment's proofs at most MaxRejects
\* times.
TxMined(d, parsed) ==
    /\ d \in inflight
    /\ d.h = "tx"
    /\ ~frame.open
    /\ \/ /\ d.op = "createPayment"
          /\ d.amount <= balance[d.account]
          /\ paymentCounter + 1 \in OnePayment
          /\ createPayment(d.account, d.amount, HashOf(d.text), d.verifier, d.deadline)
       \/ /\ d.op = "acceptPayment"
          /\ acceptPayment(d.account, NumberOf(d.onChainId))
       \/ /\ d.op = "submitProof"
          /\ submitProof(d.account, NumberOf(d.onChainId), HashOf(d.text))
       \/ /\ d.op = "verify"
          /\ \/ d.approved
             \/ Rejections(NumberOf(d.onChainId)) < MaxRejects
             \/ verifyCheck(d.account, NumberOf(d.onChainId)) # "ok"
          /\ verify(d.account, NumberOf(d.onChainId), d.approved)
    /\ inflight' = (inflight \ {d}) \cup AfterTx(d, lastCall', parsed)
    /\ UNCHANGED mirror
    /\ UNCHANGED agent

\* The transfer of a payout returns; a handleVerify that waits for it goes on
\* to its mirror calls if the transaction succeeded and to its catch if not.
TxReturns(success) ==
    /\ _safeTransferReturn(success)
    /\ inflight' =
          {d \in inflight : d.h # "awaitTx"} \cup
          (IF success
           THEN {[d EXCEPT !.h = FirstMutation(d.op)] : d \in {e \in inflight : e.h = "awaitTx"}}
           ELSE {})
    /\ UNCHANGED mirror
    /\ UNCHANGED agent

\* The mirror mutation a handler has due is executed; the handler goes on to
\* its next mutation, if it has one.
MirrorCall(d) ==
    /\ d \in inflight
    /\ d.h \notin {"tx", "awaitTx"}
    /\ mirrorPayments' =
          CASE d.h = "payments.create" ->
                  paymentsCreate(mirrorPayments,
                      [onChainId |-> d.onChainId, principalAddress |-> d.account,
                       verifierAddress |-> d.verifier, amount |-> d.amount,
                       conditionHash |-> HashOf(d.text), deadline |-> d.deadline], now)
            [] d.h = "payments.accept" ->
                  paymentsAccept(mirrorPayments,
                      [onChainId |-> d.onChainId, workerAddress |-> d.account], now)
            [] d.h = "payments.markSubmitted" ->
                  paymentsMarkSubmitted(mirrorPayments, [onChainId |-> d.onChainId], now)
            [] d.h = "payments.updateAfterVerification" ->
                  paymentsUpdateAfterVerification(mirrorPayments,
                      [onChainId |-> d.onChainId, approved |-> d.approved], now)
            [] OTHER -> mirrorPayments
    /\ mirrorProofs' =
          IF d.h = "proofs.create"
          THEN proofsCreate(mirrorProofs,
                  [paymentId |-> d.paymentId, onChainPaymentId |-> d.onChainId,
                   proofText |-> d.text, proofHash |-> HashOf(d.text),
                   submittedBy |-> d.account], now)
          ELSE mirrorProofs
    /\ mirrorVerifications' =
          IF d.h = "verifications.create"
          THEN verificationsCreate(mirrorVerifications,
                  [paymentId |-> d.paymentId, onChainPaymentId |-> d.onChainId,
                   approved |-> d.approved], now)
          ELSE mirrorVerifications
    /\ inflight' =
          (inflight \ {d}) \cup
          (CASE d.h = "proofs.create" -> {[d EXCEPT !.h = "payments.markSubmitted"]}
             [] d.h = "verifications.create" ->
                   {[d EXCEPT !.h = "payments.updateAfterVerification"]}
             [] OTHER -> {})
    /\ UNCHANGED <<now, paymentCounter, payments, balance, events, paidOut, locked, frame,
                   lastCall, agentRuns, agentTxs, proofLog>>

\* An await of a handler throws (the wallet refuses the transaction, the
\* mirror mutation fails or never arrives): the handler ends in its catch and
\* makes none of the calls that were to follow.
MirrorCallFails(d) ==
    /\ d \in inflight
    /\ d.h # "awaitTx"
    /\ inflight' = inflight \ {d}
    /\ UNCHANGED <<now, paymentCounter, payments, balance, events, paidOut, locked, frame,
                   lastCall, mirrorPayments, mirrorProofs, mirrorVerifications,
                   agentRuns, agentTxs, proofLog>>

\* payments.markRefunded called by a client of the deployment: the mutation
\* is public, and no page of the repository calls it.
markRefunded(onChainId) ==
    /\ getByOnChainId(mirrorPayments, onChainId) # 0
    /\ mirrorPayments' = paymentsMarkRefunded(mirrorPayments, [onChainId |-> onChainId])
    /\ mirrorPayments' # mirrorPayments
    /\ UNCHANGED <<now, paymentCounter, payments, balance, events, paidOut, locked, frame,
                   lastCall, mirrorProofs, mirrorVerifications, inflight,
                   agentRuns, agentTxs, proofLog>>

\* The ids a document of the mirror may carry as its onChainId: that of the
\* payment, and 0 when handleSubmit found no PaymentCreated log.
MirrorIds == {0} \cup OnePayment

\* One payment created through the create page by alice with carol as
\* verifier and worked on by bob, each using the pages in up to MaxInflight
\* tabs, a client that calls payments.markRefunded, and beside them the same
\* parties' direct calls to the contract (scripts, other clients, the
\* agent-service).
NextMirror ==
    \/ \E days \in FormDays : handleSubmit("alice", 1, "the work is done", "carol", days)
    \/ \E a \in {"bob"}, id \in MirrorIds : handleAccept(a, OnChainIdOf(id))
    \/ \E a \in {"bob"}, id \in MirrorIds, t \in ProofTexts :
            handleSubmitProof(a, OnChainIdOf(id), t)
    \/ \E a \in {"carol"}, k \in 1..MaxInflight, ok \in BOOLEAN : handleVerify(a, k, ok)
    \/ \E d \in inflight, parsed \in BOOLEAN : TxMined(d, parsed)
    \/ \E ok \in BOOLEAN : TxReturns(ok)
    \/ \E d \in inflight : MirrorCall(d)
    \/ \E d \in inflight : MirrorCallFails(d)
    \/ \E id \in MirrorIds : markRefunded(OnChainIdOf(id))
    \/ \E s \in {"bob"}, id \in OnePayment : acceptPayment(s, id) /\ UNCHANGED offchain
    \/ \E s \in {"bob"}, id \in OnePayment, p \in ProofHashes :
            submitProof(s, id, p) /\ UNCHANGED offchain
    \/ \E s \in {"carol"}, id \in OnePayment, a \in BOOLEAN :
            /\ a \/ Rejections(id) < MaxRejects
            /\ verify(s, id, a)
            /\ UNCHANGED offchain
    \/ \E s \in {"alice"}, id \in OnePayment : refundOnTimeout(s, id) /\ UNCHANGED offchain
    \/ \E s \in {"alice"}, id \in OnePayment : cancelPayment(s, id) /\ UNCHANGED offchain
    \/ Tick /\ UNCHANGED offchain

\* Time passes, a transaction that was sent is mined, a transfer's call
\* returns, and a mirror call that is due is made or fails: no handler waits
\* forever.
FairnessMirror ==
    /\ SF_vars(Tick /\ UNCHANGED offchain)
    /\ WF_vars(\E d \in inflight, parsed \in BOOLEAN : TxMined(d, parsed))
    /\ WF_vars(\E ok \in BOOLEAN : TxReturns(ok))
    /\ WF_vars(\E d \in inflight : MirrorCall(d))

SpecMirror == Init /\ [][NextMirror]_vars /\ FairnessMirror

\* ---------------------------------------------------------- agent-service
\* event ProofSubmitted as the contract declares it and as the agent's
\* MINIMAL_ABI declares it, in canonical form.
ContractEvent == "ProofSubmitted(uint256,bytes32)"
AgentEvent == "ProofSubmitted(uint256,string)"

\* topic0 of an event's logs: keccak256 of its signature (the first four
\* bytes are kept).
EventTopic(signature) ==
    CASE signature = "ProofSubmitted(uint256,bytes32)" -> "0x556d8e38"
      [] signature = "ProofSubmitted(uint256,string)" -> "0xc577bdeb"

\* What event.args[1] may hold when a log decodes as the event of the
\* agent's ABI, and the ids of the payments such logs are about.
AgentProofs == {"tbd", "draft", "the finished work"}
AgentPayments == {1, 2}

\* proof.length of the string an event carries.
ProofLength(proof) ==
    CASE proof = "tbd" -> 3
      [] proof = "draft" -> 5
      [] proof = "the finished work" -> 17

\* What `await contract.payments(paymentId)` may hold in the fields the loop
\* looks at, Number(payment.status) and payment.verifier, when the answer
\* decodes as the tuple MINIMAL_ABI declares.
AgentReads == [status : 0..4, verifier : {AgentAddress, "bob"}]

\* submitProof of the contract in a transaction of its own that is not
\* reverted; the log of its event joins the logs at the contract's address.
SubmitTransaction(sender, _paymentId, _proofHash) ==
    /\ ~frame.open
    /\ submitProof(sender, _paymentId, _proofHash)
    /\ lastCall'.result = "ok"
    /\ proofLog' = Append(proofLog, [topic |-> EventTopic(ContractEvent),
                                     paymentId |-> _paymentId, proof |-> _proofHash])
    /\ UNCHANGED <<pages, agentRuns, agentTxs>>

\* contract.queryFilter(contract.filters.ProofSubmitted(), fromBlock): the
\* logs at the address whose topic0 is that of the event MINIMAL_ABI
\* declares, oldest first.  The log of the model is shorter than the 5000
\* blocks looked back.
queryFilter == SelectSeq(proofLog, LAMBDA log : log.topic = EventTopic(AgentEvent))

\* The lists `await contract.queryFilter(filter, fromBlock)` may hand to the
\* callback when the loop is run by itself: up to MaxEvents logs that decode
\* as the event of the agent's ABI, oldest first.
AgentWindows ==
    UNION {[1..n -> [topic : {EventTopic(AgentEvent)}, paymentId : AgentPayments,
                     proof : AgentProofs]] : n \in 0..MaxEvents}

\* The setInterval callback fires: a run queries the events and is answered
\* `answer`.  Runs overlap when one is still awaiting as the next fires.  A
\* run is started while the transactions it and the runs under way may hand
\* in can be held.
PollStart(r, answer) ==
    /\ agentRuns[r].pc = "idle"
    /\ Len(agentTxs)
          + Cardinality({answer[k].paymentId : k \in 1..Len(answer)})
               * (Cardinality({q \in RunIds : agentRuns[q].pc # "idle"}) + 1)
          <= MaxTxs
    /\ agentRuns' = [agentRuns EXCEPT ![r] =
          [IdleRun EXCEPT !.pc = "loop", !.events = answer]]
    /\ UNCHANGED <<now, paymentCounter, payments, balance, events, paidOut, locked, frame,
                   lastCall, pages, agentTxs, proofLog>>

\* `for (const event of events)` has no event left: the callback returns.
LoopEnd(r) ==
    /\ agentRuns[r].pc = "loop"
    /\ agentRuns[r].next > Len(agentRuns[r].events)
    /\ agentRuns' = [agentRuns EXCEPT ![r] = IdleRun]
    /\ UNCHANGED <<now, paymentCounter, payments, balance, events, paidOut, locked, frame,
                   lastCall, pages, agentTxs, proofLog>>

\* Mutant: a loop step without the set of the ids already processed.
AgentStepNoDedupe(r) ==
    LET run == agentRuns[r] IN
    /\ run.pc = "loop"
    /\ run.next <= Len(run.events)
    /\ agentRuns' = [agentRuns EXCEPT ![r] = [run EXCEPT !.pc = "contract.payments"]]
    /\ UNCHANGED <<now, paymentCounter, payments, balance, events, paidOut, locked, frame,
                   lastCall, pages, agentTxs, proofLog>>

\* One pass of the loop body up to its first await: an id already processed
\* in this run is passed over; otherwise the id joins the set and the read of
\* the payment is sent, `await contract.payments(paymentId)`.
AgentStep(r) ==
    LET run == agentRuns[r]
        event == run.events[run.next]
    IN
    /\ run.pc = "loop"
    /\ run.next <= Len(run.events)
    /\ agentRuns' = [agentRuns EXCEPT ![r] =
          IF event.paymentId \in run.processedPaymentIds
          THEN [run EXCEPT !.next = @ + 1]
          ELSE [run EXCEPT !.pc = "contract.payments",
                           !.processedPaymentIds = @ \cup {event.paymentId}]]
    /\ UNCHANGED <<now, paymentCounter, payments, balance, events, paidOut, locked, frame,
                   lastCall, pages, agentTxs, proofLog>>

\* Mutant: a read whose status is not looked at.
AgentReadAnyStatus(r, read) ==
    LET run == agentRuns[r] IN
    /\ run.pc = "contract.payments"
    /\ agentRuns' = [agentRuns EXCEPT ![r] =
          IF read.verifier # AgentAddress
          THEN [run EXCEPT !.pc = "loop", !.next = @ + 1, !.payment = read]
          ELSE [run EXCEPT !.pc = "verifyProof", !.payment = read]]
    /\ UNCHANGED <<now, paymentCounter, payments, balance, events, paidOut, locked, frame,
                   lastCall, pages, agentTxs, proofLog>>

\* The getter answers, `read` being what the answer decodes to: the two
\* tests are made on it, and the event is passed over (`continue`) or goes on
\* to the oracle.
AgentRead(r, read) ==
    LET run == agentRuns[r] IN
    /\ run.pc = "contract.payments"
    /\ agentRuns' = [agentRuns EXCEPT ![r] =
          IF read.status # PaymentStatusSubmitted \/ read.verifier # AgentAddress
          THEN [run EXCEPT !.pc = "loop", !.next = @ + 1, !.payment = read]
          ELSE [run EXCEPT !.pc = "verifyProof", !.payment = read]]
    /\ UNCHANGED <<now, paymentCounter, payments, balance, events, paidOut, locked, frame,
                   lastCall, pages, agentTxs, proofLog>>

\* `await contract.payments(paymentId)` throws (the RPC fails, or the answer
\* does not decode as the tuple MINIMAL_ABI declares): it is outside the inner
\* try, so the catch of the callback ends the run where it is.
AgentThrows(r) ==
    /\ agentRuns[r].pc = "contract.payments"
    /\ agentRuns' = [agentRuns EXCEPT ![r] = IdleRun]
    /\ UNCHANGED <<now, paymentCounter, payments, balance, events, paidOut, locked, frame,
                   lastCall, pages, agentTxs, proofLog>>

\* verifyProof(condition, proof): a proof shorter than 5 is refused; with an
\* API key the LLM is asked, and an exception or an answer with neither YES
\* nor NO counts as a refusal; with no key a proof longer than 10 is accepted.
verifyProof(proof, gemini) ==
    IF ProofLength(proof) < 5 THEN FALSE
    ELSE CASE gemini = "YES" -> TRUE
           [] gemini = "NO" -> FALSE
           [] gemini = "MAYBE" -> FALSE
           [] gemini = "throws" -> FALSE
           [] gemini = "no key" -> ProofLength(proof) > 10

\* `await verifyProof(condition, proof)` returns the decision.
AgentOracle(r, gemini) ==
    LET run == agentRuns[r] IN
    /\ run.pc = "verifyProof"
    /\ agentRuns' = [agentRuns EXCEPT ![r] =
          [run EXCEPT !.pc = "createContractExecutionTransaction",
                      !.isApproved = verifyProof(run.events[run.next].proof, gemini),
                      !.threw = (gemini = "throws" /\ ProofLength(run.events[run.next].proof) >= 5),
                      !.oracleCalls = Append(@, run.events[run.next].paymentId)]]
    /\ UNCHANGED <<now, paymentCounter, payments, balance, events, paidOut, locked, frame,
                   lastCall, pages, agentTxs, proofLog>>

\* circleClient.createContractExecutionTransaction: the verify transaction is
\* handed to the wallet service (accepted), or the call throws into the inner
\* catch; the loop goes on to the next event.  agentTxs is the record of the
\* transactions handed in.
AgentSubmit(r, accepted) ==
    LET run == agentRuns[r] IN
    /\ run.pc = "createContractExecutionTransaction"
    /\ agentTxs' =
          IF accepted
          THEN Append(agentTxs, [paymentId |-> run.events[run.next].paymentId,
                                 isApproved |-> run.isApproved,
                                 proof |-> run.events[run.next].proof, run |-> r,
                                 threw |-> run.threw])
          ELSE agentTxs
    /\ agentRuns' = [agentRuns EXCEPT ![r] =
          [run EXCEPT !.pc = "loop", !.next = @ + 1,
                      !.txs = IF accepted THEN Append(@, run.events[run.next].paymentId)
                              ELSE @]]
    /\ UNCHANGED <<now, paymentCounter, payments, balance, events, paidOut, locked, frame,
                   lastCall, pages, proofLog>>

\* A call to the contract that is a transaction of its own and is not
\* reverted at once.
Transaction(call) ==
    ~frame.open /\ call /\ lastCall'.result \in {"ok", "pending"} /\ UNCHANGED offchain

\* The poll loop by itself, with what its awaits return as inputs: every
\* list of up to MaxEvents events of two payments as the answer of
\* queryFilter, every answer of the getter, of the LLM and of the wallet
\* service, up to MaxRuns runs overlapping.  These are more inputs than the
\* contract of the repository gives the loop (see SpecAgentFair).
NextAgent ==
    \/ \E r \in RunIds, answer \in AgentWindows : PollStart(r, answer)
    \/ \E r \in RunIds : LoopEnd(r)
    \/ \E r \in RunIds : AgentStep(r)
    \/ \E r \in RunIds, read \in AgentReads : AgentRead(r, read)
    \/ \E r \in RunIds : AgentThrows(r)
    \/ \E r \in RunIds, gemini \in GeminiOutcomes : AgentOracle(r, gemini)
    \/ \E r \in RunIds, accepted \in BOOLEAN : AgentSubmit(r, accepted)

SpecAgent == Init /\ [][NextAgent]_vars

\* The agent-service polling the contract of the repository: one payment
\* funded by alice, with the agent or another account as its verifier,
\* accepted, worked on and verified by hand.  The logs of the contract carry
\* the topic of ProofSubmitted(uint256,bytes32), so every poll gets an empty
\* list and the loop body is never entered.
NextAgentFair ==
    \/ Creates(OnePayment, {"alice"}, {1}, {AgentAddress, "bob"}, {MaxTime})
    \/ \E s \in Addrs, id \in OnePayment : Transaction(acceptPayment(s, id))
    \/ \E s \in Addrs, id \in OnePayment, t \in ProofTexts :
            SubmitTransaction(s, id, HashOf(t))
    \/ \E s \in Addrs, id \in OnePayment, a \in BOOLEAN :
            /\ a \/ Rejections(id) < MaxRejects
            /\ Transaction(verify(s, id, a))
    \/ \E ok \in BOOLEAN : _safeTransferReturn(ok) /\ UNCHANGED offchain
    \/ \E r \in RunIds : PollStart(r, queryFilter)
    \/ \E r \in RunIds : LoopEnd(r)

\* The interval timer keeps firing, a run that awaits is resumed, and a
\* transfer's call returns.
FairnessAgent ==
    /\ WF_vars(\E r \in RunIds : PollStart(r, queryFilter))
    /\ \A r \in RunIds : WF_vars(LoopEnd(r))
    /\ WF_vars(\E ok \in BOOLEAN : _safeTransferReturn(ok) /\ UNCHANGED offchain)

SpecAgentFair == Init /\ [][NextAgentFair]_vars /\ FairnessAgent

\* ------------------------------------------------------------ properties
Terminal == {Released, Refunded}
Escrowed == {Created, Accepted, Submitted}
Exists(id) == payments[id].id # 0

RECURSIVE SumAmounts(_)
\* Sum of `amount` over the payments of `ids` whose funds are in escrow.
SumAmounts(ids) ==
    IF ids = {} THEN 0
    ELSE LET i == CHOOSE x \in ids : TRUE IN
         (IF Exists(i) /\ payments[i].status \in Escrowed THEN payments[i].amount ELSE 0)
         + SumAmounts(ids \ {i})

RECURSIVE SumDeposited(_)
\* Sum of `amount` over the payments of `ids`.
SumDeposited(ids) ==
    IF ids = {} THEN 0
    ELSE LET i == CHOOSE x \in ids : TRUE IN
         payments[i].amount + SumDeposited(ids \ {i})

RECURSIVE SumValues(_)
\* Sum of the values of a sequence of transfers.
SumValues(transfers) ==
    IF transfers = <<>> THEN 0
    ELSE Head(transfers).value + SumValues(Tail(transfers))

RECURSIVE SumPaidOut(_)
\* Sum of the values transferred out of the contract for the payments of `ids`.
SumPaidOut(ids) ==
    IF ids = {} THEN 0
    ELSE LET i == CHOOSE x \in ids : TRUE IN
         SumValues(paidOut[i]) + SumPaidOut(ids \ {i})

\* C1: for every payment, at most one transfer ever leaves the contract; there
\* is one exactly when the status is Released (to the worker, of the amount)
\* or Refunded (to the principal, of the amount), and none while the status
\* is Created, Accepted or Submitted.  These transfers are all that leaves the
\* contract: its balance is what was deposited less what they paid out.
C1_DisbursedOnceOnTerminal ==
    /\ balance[ContractAddr] = SumDeposited(PaymentIds) - SumPaidOut(PaymentIds)
    /\ \A id \in PaymentIds :
        /\ Len(paidOut[id]) <= 1
        /\ (Len(paidOut[id]) = 1) <=> (Exists(id) /\ payments[id].status \in Terminal)
        /\ payments[id].status = Released =>
                paidOut[id] = << [to |-> payments[id].worker, value |-> payments[id].amount] >>
        /\ payments[id].status = Refunded =>
                paidOut[id] = << [to |-> payments[id].principal, value |-> payments[id].amount] >>

\* C1 witness: with two payments, one has been released to its worker and the
\* other refunded to the principal, each by a completed transfer.
C1_Witness ==
    /\ ~frame.open
    /\ payments[1].status = Released /\ Len(paidOut[1]) = 1
    /\ payments[2].status = Refunded /\ Len(paidOut[2]) = 1

\* C2: the contract's balance is the sum of the amounts of the payments whose
\* status is Created, Accepted or Submitted.
C2_BalanceIsEscrow ==
    balance[ContractAddr] = SumAmounts(PaymentIds)

\* C2 witness: two payments of different amounts, one still in escrow and one
\* paid out.
C2_Witness ==
    /\ ~frame.open
    /\ payments[1].status = Released /\ payments[1].amount = 1
    /\ payments[2].status = Submitted /\ payments[2].amount = 2
    /\ balance[ContractAddr] = 2

\* C3: on a Created payment before its deadline an acceptPayment by any caller
\* other than the principal succeeds; once one has succeeded the status is
\* Accepted, the worker is that caller, and an acceptPayment by any caller is
\* rejected with InvalidStatus.
C3_NoDoubleAccept ==
    \A id \in PaymentIds :
        /\ (Exists(id) /\ payments[id].status = Created /\ payments[id].deadline > now) =>
                \A s \in Addrs \ {payments[id].principal} : acceptPaymentCheck(s, id) = "ok"
        /\ (lastCall.op = "acceptPayment" /\ lastCall.result = "ok" /\ lastCall.id = id) =>
                /\ payments[id].status = Accepted
                /\ payments[id].worker = lastCall.sender
                /\ \A s \in Addrs : acceptPaymentCheck(s, id) = "InvalidStatus"
        /\ (lastCall.op = "acceptPayment" /\ lastCall.result = "InvalidStatus") =>
                \E i \in PaymentIds : Exists(i) /\ payments[i].status # Created

\* C3 witness: a second acceptPayment has just been rejected with InvalidStatus
\* on a payment that another caller accepted, before the deadline.
C3_Witness ==
    /\ lastCall.op = "acceptPayment" /\ lastCall.result = "InvalidStatus"
    /\ payments[1].status = Accepted /\ payments[1].deadline > now
    /\ \E s \in Addrs \ {payments[1].principal, payments[1].worker} : TRUE

\* The status a payment's last event stands for.
StatusOfLastEvent(id) ==
    LET e == events[id][Len(events[id])] IN
    CASE e.name = "PaymentCreated" -> Created
      [] e.name = "PaymentAccepted" -> Accepted
      [] e.name = "ProofSubmitted" -> Submitted
      [] e.name = "PaymentVerified" -> (IF e.approved THEN Released ELSE Accepted)
      [] e.name = "PaymentReleased" -> Released
      [] e.name = "PaymentRefunded" -> Refunded

\* C4 as stated (its last part): on a payment whose status is Refunded a
\* refundOnTimeout fails with InvalidStatus, by any caller at any time.
C4_Original ==
    \A id \in PaymentIds : (Exists(id) /\ payments[id].status = Refunded) =>
        \A s \in Addrs : refundOnTimeoutCheck(s, id) = "InvalidStatus"

\* C4 as amended (state part): on a payment whose status is Released or
\* Refunded no call by any caller passes its checks.  acceptPayment fails with
\* InvalidStatus and submitProof with NotAuthorized or InvalidStatus at any
\* time; refundOnTimeout fails with InvalidStatus, and verify and
\* cancelPayment with NotAuthorized or InvalidStatus, unless the call is made
\* while a payout is in progress: then each of the three fails with
\* ReentrancyGuardReentrantCall.
C4_TerminalRejectsAll ==
    \A id \in PaymentIds : (Exists(id) /\ payments[id].status \in Terminal) =>
        \A s \in Addrs :
            /\ acceptPaymentCheck(s, id) = "InvalidStatus"
            /\ submitProofCheck(s, id) \in {"NotAuthorized", "InvalidStatus"}
            /\ refundOnTimeoutCheck(s, id) =
                  (IF locked THEN "ReentrancyGuardReentrantCall" ELSE "InvalidStatus")
            /\ verifyCheck(s, id) \in
                  (IF locked THEN {"ReentrancyGuardReentrantCall"}
                   ELSE {"NotAuthorized", "InvalidStatus"})
            /\ cancelPaymentCheck(s, id) \in
                  (IF locked THEN {"ReentrancyGuardReentrantCall"}
                   ELSE {"NotAuthorized", "InvalidStatus"})

\* C4 as amended: every call on a payment whose status is Released or
\* Refunded is rejected, with the errors above, and once the transaction that
\* wrote the status has completed no step changes the payment's record.
C4_TerminalIsFinal ==
    /\ []C4_TerminalRejectsAll
    /\ [][\A id \in PaymentIds :
            (~frame.open /\ Exists(id) /\ payments[id].status \in Terminal) =>
                payments'[id] = payments[id]]_vars

\* C4 witness: a second refundOnTimeout has just been rejected with
\* InvalidStatus on a payment already refunded.
C4_Witness ==
    /\ lastCall.op = "refundOnTimeout" /\ lastCall.result = "InvalidStatus"
    /\ payments[1].status = Refunded /\ ~frame.open

\* What a call that reported success has done, from the records `pre` it
\* started from.
Performed(c, pre) ==
    LET before == pre[c.id]
        after == payments'[c.id]
    IN
    /\ Len(events'[c.id]) > Len(events[c.id])
    /\ CASE c.op = "createPayment" ->
                /\ before = NoPayment /\ after.status = Created /\ after.id = c.id
                /\ paymentCounter' = paymentCounter + 1 /\ c.id = paymentCounter'
                /\ balance'[ContractAddr] = balance[ContractAddr] + after.amount
         [] c.op = "acceptPayment" -> before.status = Created /\ after.status = Accepted
         [] c.op = "submitProof" -> before.status = Accepted /\ after.status = Submitted
         [] c.op = "verify" ->
                /\ before.status = Submitted
                /\ after.status = (IF c.approved THEN Released ELSE Accepted)
                /\ c.approved => balance'[after.worker] # frame.saved.balance[after.worker]
         [] c.op \in {"refundOnTimeout", "cancelPayment"} ->
                /\ before.status \in Escrowed /\ after.status = Refunded
                /\ balance'[after.principal] # frame.saved.balance[after.principal]

\* C5: a call that ends with an error leaves paymentCounter, every payment
\* record, every balance and the event log as they were before the call, and
\* a call that ends with success has made its transition and emitted its event.
C5_RejectedCallsChangeNothing ==
    [][ /\ (lastCall'.result \notin {"ok", "pending"}) =>
            IF frame.open /\ ~frame'.open
            THEN ledger' = <<paymentCounter, frame.saved.payments, frame.saved.balance,
                             frame.saved.events, frame.saved.paidOut>>
            ELSE UNCHANGED ledger
        /\ (lastCall'.result = "ok" /\ lastCall'.op # "none") =>
            Performed(lastCall', IF frame.open /\ ~frame'.open
                                 THEN frame.saved.payments ELSE payments) ]_vars

\* C5 witness: a refundOnTimeout whose transfer failed has been rolled back:
\* the payment is still Accepted with its funds in the contract.
C5_Witness ==
    /\ lastCall.op = "refundOnTimeout" /\ lastCall.result = "TransferFailed"
    /\ payments[1].status = Accepted /\ balance[ContractAddr] = payments[1].amount
    /\ payments[1].deadline <= now

\* C6: funds and status agree in every state (a terminal status exactly when
\* the amount has left the contract), and after a call has failed with
\* TransferFailed the payment has the status of its last event, which is not
\* terminal, and its funds are in the contract.
C6_TransferAtomic ==
    /\ \A id \in PaymentIds : Exists(id) =>
        /\ payments[id].status \in Terminal <=> paidOut[id] # <<>>
        /\ payments[id].status \in Terminal => balance[ContractAddr] = 0
        /\ payments[id].status \in Escrowed => balance[ContractAddr] = payments[id].amount
    /\ lastCall.result = "TransferFailed" =>
        /\ lastCall.op \in {"verify", "refundOnTimeout", "cancelPayment"}
        /\ payments[lastCall.id].status = StatusOfLastEvent(lastCall.id)
        /\ payments[lastCall.id].status \in Escrowed
        /\ paidOut[lastCall.id] = <<>>

\* C6 witness: verify(true) has just failed with TransferFailed and the
\* payment is still Submitted.
C6_Witness ==
    /\ lastCall.op = "verify" /\ lastCall.result = "TransferFailed"
    /\ payments[1].status = Submitted /\ balance[ContractAddr] = payments[1].amount

\* C7 as stated (its last part): on an existing payment a verify by anyone
\* but the verifier and a cancelPayment by anyone but the principal is
\* rejected with NotAuthorized.
C7_Original ==
    \A id \in PaymentIds : Exists(id) => \A s \in Addrs :
        /\ s # payments[id].verifier => verifyCheck(s, id) = "NotAuthorized"
        /\ s # payments[id].principal => cancelPaymentCheck(s, id) = "NotAuthorized"

\* C7 as amended: on an existing payment submitProof passes its checks only
\* for the worker, verify only for the verifier and cancelPayment only for
\* the principal, and a call that succeeded came from that party.  Any other
\* caller gets NotAuthorized from submitProof at any time, and from verify
\* and cancelPayment unless the call is made while a payout is in progress:
\* then verify and cancelPayment fail with ReentrancyGuardReentrantCall,
\* whoever calls.
C7_OnlyTheRole ==
    /\ \A id \in PaymentIds : Exists(id) => \A s \in Addrs :
        /\ submitProofCheck(s, id) = "ok" => s = payments[id].worker
        /\ verifyCheck(s, id) = "ok" => s = payments[id].verifier
        /\ cancelPaymentCheck(s, id) = "ok" => s = payments[id].principal
        /\ s # payments[id].worker => submitProofCheck(s, id) = "NotAuthorized"
        /\ s # payments[id].verifier =>
              verifyCheck(s, id) =
                  (IF locked THEN "ReentrancyGuardReentrantCall" ELSE "NotAuthorized")
        /\ s # payments[id].principal =>
              cancelPaymentCheck(s, id) =
                  (IF locked THEN "ReentrancyGuardReentrantCall" ELSE "NotAuthorized")
        /\ locked =>
              /\ verifyCheck(s, id) = "ReentrancyGuardReentrantCall"
              /\ cancelPaymentCheck(s, id) = "ReentrancyGuardReentrantCall"
    /\ (lastCall.result \in {"ok", "pending"} /\ lastCall.op = "submitProof") =>
            lastCall.sender = payments[lastCall.id].worker
    /\ (lastCall.result \in {"ok", "pending"} /\ lastCall.op = "verify") =>
            lastCall.sender = payments[lastCall.id].verifier
    /\ (lastCall.result \in {"ok", "pending"} /\ lastCall.op = "cancelPayment") =>
            lastCall.sender = payments[lastCall.id].principal

\* C7 witness: a verify has just been rejected with NotAuthorized on a
\* Submitted payment.
C7_Witness ==
    /\ lastCall.op = "verify" /\ lastCall.result = "NotAuthorized"
    /\ payments[1].status = Submitted

\* The status changes a call `c` may make to a payment.
Allowed(before, after, c) ==
    \/ before.status = after.status /\ (before.id = 0 <=> after.id = 0)
    \/ before.id = 0 /\ after.id # 0 /\ after.status = Created /\ c.op = "createPayment"
    \/ /\ before.id # 0 /\ after.id # 0
       /\ \/ before.status = Created /\ after.status = Accepted /\ c.op = "acceptPayment"
          \/ before.status = Accepted /\ after.status = Submitted /\ c.op = "submitProof"
          \/ before.status = Submitted /\ after.status = Released /\ c.op = "verify" /\ c.approved
          \/ before.status = Submitted /\ after.status = Accepted /\ c.op = "verify" /\ ~c.approved
          \/ before.status \in Escrowed /\ after.status = Refunded /\ c.op = "refundOnTimeout"
          \/ before.status = Created /\ after.status = Refunded /\ c.op = "cancelPayment"

\* C8: every change of a payment's status made by a call is one of
\* (absent)->Created by createPayment, Created->Accepted by acceptPayment,
\* Accepted->Submitted by submitProof, Submitted->Released by verify(true),
\* Submitted->Accepted by verify(false), Created/Accepted/Submitted->Refunded
\* by refundOnTimeout, Created->Refunded by cancelPayment; so the only cycle is
\* Accepted<->Submitted and no payment returns to Created.  (The step in which
\* a call fails with TransferFailed undoes that call's own change and is no
\* transition; after it the records are those the call started from.)
C8_LegalTransitions ==
    [][ IF lastCall'.result = "TransferFailed"
        THEN payments' = Committed
        ELSE \A id \in PaymentIds : Allowed(payments[id], payments'[id], lastCall') ]_vars

\* C8 witness: the cycle has been travelled: after a rejection the payment has
\* been submitted again.
C8_Witness ==
    /\ ~frame.open /\ payments[1].status = Submitted /\ Rejections(1) = 1

\* Whether the payment was ever accepted.
WasAccepted(id) ==
    \E k \in 1..Len(events[id]) : events[id][k].name = "PaymentAccepted"

\* C9 as stated: after every completed transaction, the worker of an existing
\* payment is null if and only if the status is Created.
C9_Original ==
    \A id \in PaymentIds : (~frame.open /\ Exists(id)) =>
        (payments[id].worker = ZeroAddr <=> payments[id].status = Created)

\* C9 as amended: the worker of an existing payment is null if and only if the
\* status is Created, or Refunded without the payment ever having been accepted.
C9_WorkerNullIffNeverAccepted ==
    \A id \in PaymentIds : Exists(id) =>
        (payments[id].worker = ZeroAddr <=>
            \/ payments[id].status = Created
            \/ payments[id].status = Refunded /\ ~WasAccepted(id))

\* C9 witness: a payment nobody accepted has been refunded after its deadline
\* and has no worker.
C9_Witness ==
    /\ ~frame.open /\ lastCall.op = "refundOnTimeout" /\ lastCall.result = "ok"
    /\ payments[1].status = Refunded /\ payments[1].worker = ZeroAddr

\* C10 as stated: after every completed transaction, the worker of an existing
\* payment is non-null if and only if the status is Accepted, Submitted or
\* Released.
C10_Original ==
    \A id \in PaymentIds : (~frame.open /\ Exists(id)) =>
        (payments[id].worker # ZeroAddr <=>
            payments[id].status \in {Accepted, Submitted, Released})

\* C10 as amended: the worker of an existing payment is non-null if and only if
\* the status is Accepted, Submitted or Released, or Refunded after the payment
\* had been accepted; the latter only at or after the deadline.
C10_WorkerSetIffAccepted ==
    \A id \in PaymentIds : Exists(id) =>
        /\ payments[id].worker # ZeroAddr <=>
            \/ payments[id].status \in {Accepted, Submitted, Released}
            \/ payments[id].status = Refunded /\ WasAccepted(id)
        /\ (payments[id].worker # ZeroAddr /\ payments[id].status = Refunded) =>
                payments[id].deadline <= now

\* C10 witness: a payment refunded on timeout after its proof was submitted
\* keeps its worker.
C10_Witness ==
    /\ ~frame.open /\ payments[1].status = Refunded /\ payments[1].worker # ZeroAddr
    /\ \E k \in 1..Len(events[1]) : events[1][k].name = "ProofSubmitted"

\* Whether a proof was ever submitted for the payment.
WasSubmitted(id) ==
    \E k \in 1..Len(events[id]) : events[id][k].name = "ProofSubmitted"

\* C11 as stated: a refundOnTimeout on a Created, Accepted or Submitted payment
\* whose deadline has passed never fails.
C11_Original ==
    ~ /\ lastCall.op = "refundOnTimeout" /\ lastCall.result = "TransferFailed"
      /\ Exists(lastCall.id) /\ payments[lastCall.id].deadline <= now
      /\ payments[lastCall.id].status \in Escrowed

RECURSIVE NetDeposits(_, _)
\* What `account` has paid into the payments of `ids` as their principal, less
\* what these payments have paid out to it.
NetDeposits(account, ids) ==
    IF ids = {} THEN 0
    ELSE LET i == CHOOSE x \in ids : TRUE IN
         (IF Exists(i) /\ payments[i].principal = account THEN payments[i].amount ELSE 0)
         - SumValues(SelectSeq(paidOut[i], LAMBDA t : t.to = account))
         + NetDeposits(account, ids \ {i})

\* C11 as amended: on a Created, Accepted or Submitted payment whose deadline
\* has passed, refundOnTimeout by any caller passes every check, unless it is
\* called while a payout is in progress (of this or of another payment): then
\* it fails with ReentrancyGuardReentrantCall.  Once its transfer to the
\* principal has gone through the status is Refunded, the one transfer made
\* for the payment is of the full amount to the principal, to whom the
\* payment has then cost nothing, and the contract holds what the other
\* payments have in escrow; on a Released or Refunded payment the call is
\* rejected.  If the transfer fails the call fails with TransferFailed and
\* the payment is as before.
C11_RefundAfterDeadline ==
    /\ \A id \in PaymentIds : \A s \in Addrs :
        /\ (Exists(id) /\ payments[id].deadline <= now /\ payments[id].status \in Escrowed) =>
              refundOnTimeoutCheck(s, id) =
                  (IF locked THEN "ReentrancyGuardReentrantCall" ELSE "ok")
        /\ (Exists(id) /\ payments[id].status \in Terminal) =>
              refundOnTimeoutCheck(s, id) =
                  (IF locked THEN "ReentrancyGuardReentrantCall" ELSE "InvalidStatus")
    /\ (lastCall.op = "refundOnTimeout" /\ lastCall.result \in {"ok", "pending"}) =>
        LET payment == payments[lastCall.id] IN
        /\ payment.status = Refunded /\ payment.deadline <= now
        /\ paidOut[lastCall.id] = << [to |-> payment.principal, value |-> payment.amount] >>
        /\ balance[payment.principal] =
              InitBalance - NetDeposits(payment.principal, PaymentIds \ {lastCall.id})
        /\ balance[ContractAddr] = SumAmounts(PaymentIds \ {lastCall.id})
    /\ (lastCall.op = "refundOnTimeout" /\ lastCall.result = "TransferFailed") =>
        /\ payments[lastCall.id].status \in Escrowed
        /\ paidOut[lastCall.id] = <<>>
        /\ balance[ContractAddr] = SumAmounts(PaymentIds)

\* C11 witness: a caller who is not the principal has refunded, at its
\* deadline, a payment whose proof had been submitted, while the second
\* payment stays in escrow.
C11_Witness ==
    /\ ~frame.open /\ lastCall.op = "refundOnTimeout" /\ lastCall.result = "ok"
    /\ lastCall.id = 1 /\ lastCall.sender # payments[1].principal
    /\ payments[1].status = Refunded /\ WasSubmitted(1)
    /\ payments[2].status \in Escrowed
    /\ balance[payments[1].principal] = InitBalance - payments[2].amount
    /\ balance[ContractAddr] = payments[2].amount

\* Number of ProofSubmitted events of a payment.
Submissions(id) ==
    Cardinality({k \in 1..Len(events[id]) : events[id][k].name = "ProofSubmitted"})

\* C12 as stated: a verify(true) by the verifier on a Submitted payment, the
\* last step of the trace, never fails.
C12_Original ==
    ~ /\ lastCall.op = "verify" /\ lastCall.result = "TransferFailed"
      /\ payments[lastCall.id].status = Submitted
      /\ lastCall.sender = payments[lastCall.id].verifier

\* C12 as amended: after any number of rejections the payment is Accepted with
\* nothing paid out and, before the deadline, its worker may submit again; a
\* Submitted payment passes the checks of its verifier's verify; and once
\* verify(true) has made its transfer the payment is Released with exactly
\* one transfer, of the amount, to the worker, however many rejections there
\* were.  If that transfer fails, verify(true) fails with TransferFailed and
\* the payment stays Submitted.
C12_RejectLoopPaysOnce ==
    \A id \in PaymentIds : Exists(id) =>
        LET payment == payments[id] IN
        /\ payment.status = Accepted =>
            /\ Submissions(id) = Rejections(id) /\ paidOut[id] = <<>>
            /\ payment.deadline > now => submitProofCheck(payment.worker, id) = "ok"
        /\ payment.status = Submitted =>
            /\ Submissions(id) = Rejections(id) + 1 /\ paidOut[id] = <<>>
            /\ ~locked => verifyCheck(payment.verifier, id) = "ok"
        /\ payment.status = Released =>
            /\ Submissions(id) = Rejections(id) + 1
            /\ paidOut[id] = << [to |-> payment.worker, value |-> payment.amount] >>
            /\ balance[payment.worker] = InitBalance + payment.amount
            /\ balance[ContractAddr] = 0
        /\ (lastCall.op = "verify" /\ lastCall.result = "TransferFailed" /\ lastCall.id = id) =>
            payment.status = Submitted

\* C12 witness: a payment rejected MaxRejects times, resubmitted each time and
\* then approved, is Released and its worker has been paid the amount once.
C12_Witness ==
    /\ ~frame.open /\ payments[1].status = Released
    /\ Rejections(1) = MaxRejects /\ Submissions(1) = MaxRejects + 1
    /\ balance[payments[1].worker] = InitBalance + payments[1].amount

\* C13 as stated: in every reachable state a createPayment with a positive
\* amount, a deadline after now and a non-zero verifier passes.
C13_Original ==
    \A s \in Addrs, v \in 1..MaxAmount, ver \in Addrs, d \in (now + 1)..(MaxTime + 1) :
        createPaymentCheck(s, v, ver, d) = "ok"

\* C13 as amended: a createPayment with amount 0, deadline <= now or the zero
\* address as verifier is rejected with InvalidAmount, InvalidDeadline or
\* InvalidAddress, leaves the ledger as it was and the next id without a
\* record; so is one made while a payout of the contract is in progress,
\* with the error of the re-entrancy guard.  Every other createPayment
\* succeeds, advances paymentCounter by one and stores under it a Created
\* record with no worker, the caller as principal and the value escrowed.
C13_CreateValidates ==
    [][/\ \A v \in 0..MaxAmount, ver \in {ZeroAddr} \cup Addrs, d \in 0..(MaxTime + 1) :
            LET err == createPaymentCheck("alice", v, ver, d) IN
            /\ err = "ok" <=> (v > 0 /\ d > now /\ ver # ZeroAddr /\ ~locked)
            /\ (~locked /\ err # "ok") =>
                  err \in {"InvalidAmount", "InvalidDeadline", "InvalidAddress"}
       /\ lastCall'.op = "createPayment" =>
            \A s \in Addrs, v \in 0..MaxAmount, h \in ConditionHashes,
               ver \in {ZeroAddr} \cup Addrs, d \in 0..(MaxTime + 1) :
                createPayment(s, v, h, ver, d) =>
                    IF v = 0 \/ d <= now \/ ver = ZeroAddr \/ locked
                    THEN /\ lastCall'.result = createPaymentCheck(s, v, ver, d)
                         /\ UNCHANGED ledger
                         /\ payments'[paymentCounter + 1] = NoPayment
                    ELSE /\ lastCall'.result = "ok"
                         /\ paymentCounter' = paymentCounter + 1
                         /\ payments'[paymentCounter'].status = Created
                         /\ payments'[paymentCounter'].worker = ZeroAddr
                         /\ payments'[paymentCounter'].principal = s
                         /\ payments'[paymentCounter'].amount = v
                         /\ balance'[ContractAddr] = balance[ContractAddr] + v
                         /\ balance'[s] = balance[s] - v
      ]_vars

\* C13 witness: a createPayment with a positive amount and a deadline after now
\* but the zero address as verifier has been rejected, and there is no
\* payment, no id and nothing in escrow.
C13_Witness ==
    /\ lastCall.op = "createPayment" /\ lastCall.result = "InvalidAddress"
    /\ paymentCounter = 0 /\ payments[1] = NoPayment
    /\ balance[ContractAddr] = 0

\* C14: exactly the ids 1..paymentCounter have a record, each record carries
\* its key as id, id 0 has none, a successful createPayment leaves
\* paymentCounter at the id it assigned, and every record still has the
\* principal, verifier, amount, condition and deadline of the one
\* PaymentCreated event of its id, so no id is assigned twice or overwritten.
C14_SequentialIds ==
    /\ \A id \in PaymentIds :
        /\ Exists(id) <=> (1 <= id /\ id <= paymentCounter)
        /\ Exists(id) =>
            /\ payments[id].id = id
            /\ Cardinality({k \in 1..Len(events[id]) :
                               events[id][k].name = "PaymentCreated"}) = 1
            /\ events[id][1] =
                  [name |-> "PaymentCreated", paymentId |-> id,
                   principal |-> payments[id].principal,
                   verifier |-> payments[id].verifier,
                   amount |-> payments[id].amount,
                   conditionHash |-> payments[id].conditionHash,
                   deadline |-> payments[id].deadline]
        /\ ~Exists(id) => (payments[id] = NoPayment /\ events[id] = <<>>)
    /\ payments[0] = NoPayment
    /\ (lastCall.op = "createPayment" /\ lastCall.result = "ok") =>
            lastCall.id = paymentCounter
    /\ (lastCall.op = "createPayment" /\ lastCall.result # "ok") =>
            payments[paymentCounter + 1] = NoPayment

\* C14 witness: a second createPayment has just succeeded with id 2 after
\* payment 1 was refunded, and payment 1 still has its record.
C14_Witness ==
    /\ lastCall.op = "createPayment" /\ lastCall.result = "ok" /\ lastCall.id = 2
    /\ paymentCounter = 2
    /\ payments[1].id = 1 /\ payments[1].status = Refunded /\ payments[1].amount = 1
    /\ payments[2].id = 2 /\ payments[2].status = Created /\ payments[2].amount = 2

\* C15: an acceptPayment by the principal of a payment never passes; one
\* rejected with InvalidAddress leaves the payment Created without a worker;
\* and a worker, once set, is never the principal.
C15_PrincipalNeverWorker ==
    /\ \A id \in PaymentIds : Exists(id) =>
        /\ acceptPaymentCheck(payments[id].principal, id) # "ok"
        /\ (payments[id].status = Created /\ payments[id].deadline > now) =>
              acceptPaymentCheck(payments[id].principal, id) = "InvalidAddress"
        /\ payments[id].principal # ZeroAddr
        /\ payments[id].worker # payments[id].principal
    /\ (lastCall.op = "acceptPayment" /\ lastCall.result = "InvalidAddress") =>
        \E id \in PaymentIds :
            /\ Exists(id) /\ payments[id].status = Created
            /\ payments[id].worker = ZeroAddr /\ events[id][Len(events[id])].name = "PaymentCreated"

\* C15 witness: the principal's acceptPayment on its own open payment has
\* just been rejected, and the payment is still Created without a worker.
C15_Witness ==
    /\ lastCall.op = "acceptPayment" /\ lastCall.result = "InvalidAddress"
    /\ payments[1].status = Created /\ payments[1].deadline > now
    /\ payments[1].worker = ZeroAddr

\* C16: on a payment whose deadline is at or before now, no acceptPayment and
\* no submitProof passes: every acceptPayment on a Created one and the
\* worker's submitProof on an Accepted one fail with DeadlineExpired; and an
\* acceptPayment or submitProof that has just succeeded did so before the
\* deadline of its payment.
C16_NoProgressAfterExpiry ==
    /\ \A id \in PaymentIds : (Exists(id) /\ payments[id].deadline <= now) =>
        /\ \A s \in Addrs :
            /\ acceptPaymentCheck(s, id) # "ok"
            /\ submitProofCheck(s, id) # "ok"
            /\ payments[id].status = Created =>
                  acceptPaymentCheck(s, id) = "DeadlineExpired"
        /\ payments[id].status = Accepted =>
              submitProofCheck(payments[id].worker, id) = "DeadlineExpired"
    /\ (lastCall.op \in {"acceptPayment", "submitProof"} /\ lastCall.result = "ok") =>
        payments[lastCall.id].deadline > now

\* C16 witness: after a rejection that came past the deadline, the worker's
\* new submitProof has failed with DeadlineExpired and the payment is still
\* Accepted.
C16_Witness ==
    /\ lastCall.op = "submitProof" /\ lastCall.result = "DeadlineExpired"
    /\ payments[1].status = Accepted /\ payments[1].deadline <= now
    /\ Rejections(1) >= 1

\* C17 as stated: on a Created, Accepted or Submitted payment a
\* refundOnTimeout is rejected with DeadlineNotExpired while now is before the
\* deadline, and passes from now = deadline on.
C17_Original ==
    \A id \in PaymentIds : (Exists(id) /\ payments[id].status \in Escrowed) =>
        \A s \in Addrs :
            /\ now < payments[id].deadline =>
                  refundOnTimeoutCheck(s, id) = "DeadlineNotExpired"
            /\ now >= payments[id].deadline => refundOnTimeoutCheck(s, id) = "ok"

\* C17 as amended: while now is before the deadline of a Created, Accepted or
\* Submitted payment every refundOnTimeout on it fails and the payment keeps
\* its status and its funds; from now = deadline on acceptPayment and
\* submitProof fail with DeadlineExpired.  Outside a payout in progress the
\* refund fails with DeadlineNotExpired before the deadline and passes from
\* the deadline on, so for a caller who may accept a Created payment, or the
\* worker of an Accepted one, exactly one of the forward call and the refund
\* passes; while a payout is in progress (of another payment) every
\* refundOnTimeout fails with ReentrancyGuardReentrantCall, before and after
\* the deadline.
C17_RefundOnlyFromDeadline ==
    /\ \A id \in PaymentIds : (Exists(id) /\ payments[id].status \in Escrowed) =>
        LET payment == payments[id] IN
        /\ now < payment.deadline =>
            \A s \in Addrs :
                refundOnTimeoutCheck(s, id) =
                    (IF locked THEN "ReentrancyGuardReentrantCall" ELSE "DeadlineNotExpired")
        /\ now >= payment.deadline =>
            \A s \in Addrs :
                /\ refundOnTimeoutCheck(s, id) =
                      (IF locked THEN "ReentrancyGuardReentrantCall" ELSE "ok")
                /\ payment.status = Created => acceptPaymentCheck(s, id) = "DeadlineExpired"
                /\ (payment.status = Accepted /\ s = payment.worker) =>
                      submitProofCheck(s, id) = "DeadlineExpired"
        /\ ~locked =>
            /\ payment.status = Created =>
                \A s \in Addrs \ {payment.principal} :
                    (acceptPaymentCheck(s, id) = "ok") # (refundOnTimeoutCheck(s, id) = "ok")
            /\ payment.status = Accepted =>
                (submitProofCheck(payment.worker, id) = "ok")
                    # (refundOnTimeoutCheck(payment.worker, id) = "ok")
    /\ (lastCall.op = "refundOnTimeout" /\ lastCall.result = "DeadlineNotExpired") =>
        \E id \in PaymentIds :
            /\ Exists(id) /\ payments[id].status \in Escrowed
            /\ now < payments[id].deadline /\ paidOut[id] = <<>>
            /\ balance[ContractAddr] >= payments[id].amount
    /\ (lastCall.op = "refundOnTimeout" /\ lastCall.result \in {"ok", "pending"}) =>
        now >= payments[lastCall.id].deadline

\* C17 witness: at now equal to the deadline a refundOnTimeout has refunded a
\* payment that was still Created.
C17_Witness ==
    /\ ~frame.open /\ lastCall.op = "refundOnTimeout" /\ lastCall.result = "ok"
    /\ now = payments[1].deadline
    /\ payments[1].status = Refunded /\ ~WasAccepted(1)

\* C18 as stated: a cancelPayment by the principal on a Created payment never
\* fails.
C18_Original ==
    ~ /\ lastCall.op = "cancelPayment" /\ lastCall.result = "TransferFailed"
      /\ lastCall.sender = payments[lastCall.id].principal
      /\ payments[lastCall.id].status = Created

\* C18 as amended: outside a payout in progress, cancelPayment passes its
\* checks exactly when the payment exists, the caller is its principal and
\* its status is Created, whatever the deadline; it then sets the status to
\* Refunded and returns the amount to the principal, unless that transfer
\* fails, in which case it fails with TransferFailed and the payment stays
\* Created and funded.  Once the payment has been accepted, the principal's
\* cancelPayment never passes again and, outside a payout, fails with
\* InvalidStatus.
C18_CancelOnlyCreated ==
    /\ \A id \in PaymentIds :
        /\ ~locked => \A s \in Addrs :
            cancelPaymentCheck(s, id) = "ok" <=>
                (Exists(id) /\ s = payments[id].principal /\ payments[id].status = Created)
        /\ (Exists(id) /\ WasAccepted(id)) =>
            /\ cancelPaymentCheck(payments[id].principal, id) # "ok"
            /\ ~locked => cancelPaymentCheck(payments[id].principal, id) = "InvalidStatus"
    /\ (lastCall.op = "cancelPayment" /\ lastCall.result \in {"ok", "pending"}) =>
        LET payment == payments[lastCall.id] IN
        /\ lastCall.sender = payment.principal
        /\ payment.status = Refunded /\ ~WasAccepted(lastCall.id)
        /\ paidOut[lastCall.id] = << [to |-> payment.principal, value |-> payment.amount] >>
        /\ balance[payment.principal] = InitBalance
        /\ balance[ContractAddr] = 0
    /\ (lastCall.op = "cancelPayment" /\ lastCall.result = "TransferFailed") =>
        /\ payments[lastCall.id].status = Created
        /\ paidOut[lastCall.id] = <<>>
        /\ balance[ContractAddr] = payments[lastCall.id].amount

\* C18 witness: the principal has cancelled a Created payment after its
\* deadline and has its funds back.
C18_Witness ==
    /\ ~frame.open /\ lastCall.op = "cancelPayment" /\ lastCall.result = "ok"
    /\ payments[1].status = Refunded /\ payments[1].deadline <= now
    /\ balance[payments[1].principal] = InitBalance

\* C19: a submitProof on a payment whose status is Created fails with
\* InvalidStatus whoever calls it.
C19_SubmitOnCreatedIsInvalidStatus ==
    \A id \in PaymentIds : (Exists(id) /\ payments[id].status = Created) =>
        \A s \in Addrs : submitProofCheck(s, id) = "InvalidStatus"

\* C20: under fairness (time passes, a transfer's call returns, a
\* refundOnTimeout that would pass is eventually sent and the transfer to the
\* principal eventually succeeds) every payment that exists is eventually
\* Released or Refunded for good, whatever the worker, the verifier and the
\* principal do or omit, rejections and resubmissions included; as the
\* fairness constrains no finite run, a terminal state is reachable from
\* every reachable state of a payment.
C20_EventuallyTerminal ==
    \A id \in OnePayment :
        Exists(id) ~> [](~frame.open /\ payments[id].status \in Terminal)

\* C20 witness: a payment that was accepted, submitted and rejected
\* MaxRejects times, then left alone by its worker, has been refunded after
\* its deadline.
C20_Witness ==
    /\ ~frame.open /\ lastCall.op = "refundOnTimeout" /\ lastCall.result = "ok"
    /\ payments[1].status = Refunded
    /\ Rejections(1) = MaxRejects /\ Submissions(1) = MaxRejects
    /\ StatusOfLastEvent(1) = Refunded

\* What a call decides when it looks at nothing but the record it names, the
\* caller and the time.
VerdictOnRecord(op, sender, payment) ==
    IF payment.id = 0 THEN "PaymentNotFound"
    ELSE CASE op = "acceptPayment" ->
                IF payment.status # Created THEN "InvalidStatus"
                ELSE IF payment.deadline <= now THEN "DeadlineExpired"
                ELSE IF sender = payment.principal THEN "InvalidAddress"
                ELSE "ok"
           [] op = "submitProof" ->
                IF payment.worker # sender THEN "NotAuthorized"
                ELSE IF payment.status # Accepted THEN "InvalidStatus"
                ELSE IF payment.deadline <= now THEN "DeadlineExpired"
                ELSE "ok"
           [] op = "verify" ->
                IF sender # payment.verifier THEN "NotAuthorized"
                ELSE IF payment.status # Submitted THEN "InvalidStatus"
                ELSE "ok"
           [] op = "refundOnTimeout" ->
                IF payment.status \in {Released, Refunded} THEN "InvalidStatus"
                ELSE IF payment.deadline > now THEN "DeadlineNotExpired"
                ELSE "ok"
           [] op = "cancelPayment" ->
                IF sender # payment.principal THEN "NotAuthorized"
                ELSE IF payment.status # Created THEN "InvalidStatus"
                ELSE "ok"

\* Everything the ledger holds about one id.
RecordOf(id) == <<payments[id], events[id], paidOut[id]>>

\* C21 as stated: whether verify, refundOnTimeout or cancelPayment on a payment
\* passes is decided by that payment's record alone, also while another
\* payment is being paid out.
C21_Original ==
    \A j \in TwoPayments, s \in Addrs :
        (Exists(j) /\ (frame.open => frame.id # j)) =>
            /\ verifyCheck(s, j) = VerdictOnRecord("verify", s, payments[j])
            /\ refundOnTimeoutCheck(s, j) = VerdictOnRecord("refundOnTimeout", s, payments[j])
            /\ cancelPaymentCheck(s, j) = VerdictOnRecord("cancelPayment", s, payments[j])

\* C21 as amended: a call on one id leaves the record, events and transfers of
\* every other id as they were (a transaction whose transfer fails leaves
\* every id as it was when the transaction began), and paymentCounter
\* changes only in a successful createPayment; whether acceptPayment or
\* submitProof passes is decided by the record of the id alone, and so it
\* is for verify, refundOnTimeout and cancelPayment except while a payout
\* of any payment is in progress, when the re-entrancy guard rejects them
\* for every id.
C21_IdsIndependent ==
    [][/\ \A j \in PaymentIds, s \in Addrs :
            /\ acceptPaymentCheck(s, j) = VerdictOnRecord("acceptPayment", s, payments[j])
            /\ submitProofCheck(s, j) = VerdictOnRecord("submitProof", s, payments[j])
            /\ IF locked
               THEN /\ verifyCheck(s, j) = "ReentrancyGuardReentrantCall"
                    /\ refundOnTimeoutCheck(s, j) = "ReentrancyGuardReentrantCall"
                    /\ cancelPaymentCheck(s, j) = "ReentrancyGuardReentrantCall"
               ELSE /\ verifyCheck(s, j) = VerdictOnRecord("verify", s, payments[j])
                    /\ refundOnTimeoutCheck(s, j) =
                          VerdictOnRecord("refundOnTimeout", s, payments[j])
                    /\ cancelPaymentCheck(s, j) =
                          VerdictOnRecord("cancelPayment", s, payments[j])
       /\ \A j \in PaymentIds :
            IF frame.open /\ ~frame'.open /\ lastCall'.result = "TransferFailed"
            THEN RecordOf(j)' = <<frame.saved.payments[j], frame.saved.events[j],
                                  frame.saved.paidOut[j]>>
            ELSE IF lastCall'.result \in {"ok", "pending"} /\ lastCall'.op # "none"
            THEN lastCall'.id # j => RecordOf(j)' = RecordOf(j)
            ELSE RecordOf(j)' = RecordOf(j)
       /\ paymentCounter' # paymentCounter =>
            (lastCall'.op = "createPayment" /\ lastCall'.result = "ok")
      ]_vars

\* C21 witness: payment 2 has just been cancelled while payment 1, accepted
\* before, is still Accepted.
C21_Witness ==
    /\ ~frame.open /\ lastCall.op = "cancelPayment" /\ lastCall.result = "ok"
    /\ lastCall.id = 2 /\ payments[2].status = Refunded
    /\ payments[1].status = Accepted /\ paidOut[1] = <<>>

\* C22: no step changes the id, principal, verifier, amount, conditionHash,
\* createdAt or deadline of a payment that exists, and the worker of a
\* payment, once a completed transaction has set it, stays the same in
\* every later state, rejections and resubmissions included.
C22_FieldsImmutable ==
    [][\A id \in PaymentIds : Exists(id) =>
        /\ payments'[id].id = payments[id].id
        /\ payments'[id].principal = payments[id].principal
        /\ payments'[id].verifier = payments[id].verifier
        /\ payments'[id].amount = payments[id].amount
        /\ payments'[id].conditionHash = payments[id].conditionHash
        /\ payments'[id].createdAt = payments[id].createdAt
        /\ payments'[id].deadline = payments[id].deadline
        /\ Committed[id].worker # ZeroAddr =>
            /\ Committed'[id].worker = Committed[id].worker
            /\ payments'[id].worker = Committed[id].worker
      ]_vars

\* C22 witness: a payment rejected and submitted again by the worker who
\* accepted it.
C22_Witness ==
    /\ lastCall.op = "submitProof" /\ lastCall.result = "ok"
    /\ Rejections(1) = MaxRejects /\ payments[1].status = Submitted
    /\ payments[1].worker = lastCall.sender
    /\ \E k \in 1..Len(events[1]) :
        events[1][k].name = "PaymentAccepted" /\ events[1][k].worker = payments[1].worker

\* The names of the events a successful call emits, in order.
EventNamesOf(c) ==
    CASE c.op = "createPayment" -> << "PaymentCreated" >>
      [] c.op = "acceptPayment" -> << "PaymentAccepted" >>
      [] c.op = "submitProof" -> << "ProofSubmitted" >>
      [] c.op = "verify" -> IF c.approved THEN << "PaymentReleased", "PaymentVerified" >>
                            ELSE << "PaymentVerified" >>
      [] c.op \in {"refundOnTimeout", "cancelPayment"} -> << "PaymentRefunded" >>

\* Number of PaymentReleased and PaymentRefunded events of a payment.
TerminalEvents(id) ==
    Cardinality({k \in 1..Len(events[id]) :
        events[id][k].name \in {"PaymentReleased", "PaymentRefunded"}})

\* C23: a call that succeeds appends to the log of its payment exactly its
\* events, each carrying the payment id (and PaymentVerified the decision),
\* and to no other log; a call that is rejected, or whose transfer fails,
\* leaves the log as it was before the transaction; so between
\* transactions every payment has at most one PaymentReleased or
\* PaymentRefunded and the status its last event implies.
C23_EventPerTransition ==
    [][/\ lastCall'.result = "pending" => events' = events
       /\ lastCall'.result \notin {"ok", "pending"} =>
            events' = (IF frame.open /\ ~frame'.open THEN frame.saved.events ELSE events)
       /\ (lastCall'.result = "ok" /\ lastCall'.op # "none") =>
            LET id == lastCall'.id
                names == EventNamesOf(lastCall')
                new == SubSeq(events'[id], Len(events[id]) + 1, Len(events'[id]))
            IN
            /\ \A j \in PaymentIds \ {id} : events'[j] = events[j]
            /\ SubSeq(events'[id], 1, Len(events[id])) = events[id]
            /\ Len(new) = Len(names)
            /\ \A k \in 1..Len(new) :
                /\ new[k].name = names[k] /\ new[k].paymentId = id
                /\ new[k].name = "PaymentVerified" => new[k].approved = lastCall'.approved
       /\ \A id \in PaymentIds : (Exists(id) /\ ~frame.open) =>
            /\ payments[id].status = StatusOfLastEvent(id)
            /\ TerminalEvents(id) <= 1
            /\ TerminalEvents(id) = 1 <=> payments[id].status \in Terminal
      ]_vars

\* C23 witness: after a rejection and a resubmission the verifier has approved:
\* the log of the payment ends with PaymentReleased and PaymentVerified(true).
C23_Witness ==
    /\ ~frame.open /\ lastCall.op = "verify" /\ lastCall.result = "ok"
    /\ Rejections(1) = MaxRejects
    /\ Len(events[1]) >= 2
    /\ events[1][Len(events[1]) - 1].name = "PaymentReleased"
    /\ events[1][Len(events[1])] =
          [name |-> "PaymentVerified", paymentId |-> 1, approved |-> TRUE]

\* The statuses the ledger payment has or has had, read off its events.
StatusesHad(id) ==
    LET StatusOf(e) ==
            CASE e.name = "PaymentCreated" -> Created
              [] e.name = "PaymentAccepted" -> Accepted
              [] e.name = "ProofSubmitted" -> Submitted
              [] e.name = "PaymentVerified" -> (IF e.approved THEN Released ELSE Accepted)
              [] e.name = "PaymentReleased" -> Released
              [] e.name = "PaymentRefunded" -> Refunded
    IN {StatusOf(CommittedEvents[id][k]) : k \in 1..Len(CommittedEvents[id])}

\* The awaits of a handler at which a mirror mutation is due.
MutationStages ==
    {"payments.create", "payments.accept", "proofs.create", "payments.markSubmitted",
     "verifications.create", "payments.updateAfterVerification"}

\* The status that the mirror calls a handler has due will write.
StatusDue(d) ==
    CASE d.op = "createPayment" -> Created
      [] d.op = "acceptPayment" -> Accepted
      [] d.op = "submitProof" -> Submitted
      [] d.op = "verify" -> (IF d.approved THEN Released ELSE Accepted)

\* C24 as stated: the status of every mirror payment, and the status every
\* mirror call that is due will write, is one the ledger payment of the same
\* id has or has had; a handler comes to have a mirror call due only in the
\* step in which its ledger transaction is confirmed, never from a
\* transaction that failed; and the step that writes the mirror is a mirror
\* call that was due.
C24_MirrorNeverAhead ==
    /\ [](\A i \in 1..Len(mirrorPayments) :
            mirrorPayments[i].status \in StatusesHad(NumberOf(mirrorPayments[i].onChainId)))
    /\ [](\A d \in inflight :
            d.h \in MutationStages => StatusDue(d) \in StatusesHad(NumberOf(d.onChainId)))
    /\ [][/\ \A d \in inflight' :
               (d.h \in MutationStages
                    /\ \A e \in inflight : e.tab = d.tab => e.h \notin MutationStages) =>
                   /\ ~frame'.open
                   /\ lastCall'.result = "ok"
                   /\ lastCall'.op = d.op
                   /\ ledger' # ledger
                   /\ mirror' = mirror
          /\ (lastCall' # lastCall /\ lastCall'.result \notin {"ok", "pending"}) =>
                 /\ mirror' = mirror
                 /\ \A d \in inflight' : d.h \in MutationStages => d \in inflight
          /\ mirror' # mirror =>
                 /\ ledger' = ledger
                 /\ \E d \in inflight : d \notin inflight' /\ d.h \in MutationStages]_vars

\* What holds of the handlers by themselves: but for a Refunded written by a
\* client's payments.markRefunded and for a document that handleSubmit files
\* under "0", having found no PaymentCreated log, the mirror is never ahead
\* of the ledger, and a handler has a mirror call due only once its
\* transaction is confirmed.
HandlersFollowLedger ==
    /\ [](\A i \in 1..Len(mirrorPayments) :
            mirrorPayments[i].onChainId # "0" =>
                mirrorPayments[i].status \in
                    StatusesHad(NumberOf(mirrorPayments[i].onChainId)) \cup {Refunded})
    /\ [](\A d \in inflight :
            (d.h \in MutationStages /\ d.onChainId # "0") =>
                StatusDue(d) \in StatusesHad(NumberOf(d.onChainId)))
    /\ [][/\ \A d \in inflight' :
               (d.h \in MutationStages
                    /\ \A e \in inflight : e.tab = d.tab => e.h \notin MutationStages) =>
                   /\ ~frame'.open
                   /\ lastCall'.result = "ok"
                   /\ lastCall'.op = d.op
                   /\ ledger' # ledger
                   /\ mirror' = mirror
          /\ (lastCall' # lastCall /\ lastCall'.result \notin {"ok", "pending"}) =>
                 /\ mirror' = mirror
                 /\ \A d \in inflight' : d.h \in MutationStages => d \in inflight]_vars

\* The times at which a mutation that runs now or later reads Date.now().
Later == now..(MaxTime + 1)

\* C25 as stated: on every mirror the handlers can produce, for every payment
\* in it, payments.accept, payments.markSubmitted, payments.updateAfterVerification
\* and payments.markRefunded applied now and then again, now or later, with
\* the same arguments leave the table that the first application left.
C25_PatchIdempotent ==
    \A i \in 1..Len(mirrorPayments), t \in Later :
        LET key == [onChainId |-> mirrorPayments[i].onChainId] IN
        /\ \A w \in Addrs :
              LET args == [onChainId |-> key.onChainId, workerAddress |-> w] IN
              paymentsAccept(paymentsAccept(mirrorPayments, args, now), args, t)
                  = paymentsAccept(mirrorPayments, args, now)
        /\ paymentsMarkSubmitted(paymentsMarkSubmitted(mirrorPayments, key, now), key, t)
              = paymentsMarkSubmitted(mirrorPayments, key, now)
        /\ \A a \in BOOLEAN :
              LET args == [onChainId |-> key.onChainId, approved |-> a] IN
              paymentsUpdateAfterVerification(
                  paymentsUpdateAfterVerification(mirrorPayments, args, now), args, t)
                  = paymentsUpdateAfterVerification(mirrorPayments, args, now)
        /\ paymentsMarkRefunded(paymentsMarkRefunded(mirrorPayments, key), key)
              = paymentsMarkRefunded(mirrorPayments, key)

\* Number of mirror payments of a table with the given onChainId.
RecordsOf(table, onChainId) ==
    Len(Matching(table, "onChainId", onChainId))

\* C26 as stated: payments.create called again, now or later, with the
\* arguments a payment of the mirror was created with leaves exactly one
\* payment with that onChainId.
C26_CreateIsUpsert ==
    \A i \in 1..Len(mirrorPayments), t \in Later :
        LET args == [f \in {"onChainId", "principalAddress", "verifierAddress", "amount",
                            "conditionHash", "deadline"} |-> mirrorPayments[i][f]]
        IN RecordsOf(paymentsCreate(mirrorPayments, args, t), args.onChainId) = 1

\* The status the mirror shows for a ledger payment: that of the document
\* getByOnChainId returns, Undefined if there is none.
MirrorStatus(id) ==
    LET i == getByOnChainId(mirrorPayments, OnChainIdOf(id)) IN
    IF i = 0 THEN Undefined ELSE mirrorPayments[i].status

\* C27 as stated: if from some time on the ledger payment stays in one status,
\* with no transaction in progress, then from some time on the mirror shows
\* that status.
C27_MirrorCatchesUp ==
    \A id \in OnePayment :
        \A st \in {Created, Accepted, Submitted, Released, Refunded} :
            <>[](Exists(id) /\ ~frame.open /\ payments[id].status = st)
                => <>[](MirrorStatus(id) = st)

\* C28 as stated: listSubmittedWithProofs lists every mirror payment whose
\* status is Submitted, each once, and with each the proofHash and proofText
\* of the proof of that payment that was stored last.
C28_JoinsLatestProof ==
    LET listed == listSubmittedWithProofs(mirrorPayments, mirrorProofs, DefaultLimit) IN
    /\ \A i \in 1..Len(mirrorPayments) :
          mirrorPayments[i].status = Submitted =>
              Cardinality({k \in 1..Len(listed) : listed[k]._id = i}) = 1
    /\ \A k \in 1..Len(listed) :
          LET of == Matching(mirrorProofs, "paymentId", listed[k]._id) IN
          /\ listed[k].status = Submitted
          /\ of # <<>> =>
                /\ listed[k].proofHash = mirrorProofs[of[Len(of)]].proofHash
                /\ listed[k].proofText = mirrorProofs[of[Len(of)]].proofText

\* The derived timestamps of a mirror payment.
DerivedTimestamps == {"acceptedAt", "submittedAt", "verifiedAt", "releasedAt"}

\* C29 as stated: a derived timestamp of a mirror payment that has a value
\* keeps it in every step.
C29_TimestampsSetOnce ==
    [][\A i \in 1..Len(mirrorPayments), f \in DerivedTimestamps :
            mirrorPayments[i][f] # NoTime =>
                mirrorPayments'[i][f] = mirrorPayments[i][f]]_vars

\* Whether a poll run's last read of a payment found it Submitted with the
\* agent as its verifier.
ReadAsMine(run) ==
    /\ run.payment.status = PaymentStatusSubmitted
    /\ run.payment.verifier = AgentAddress

\* C30: a poll run is at its oracle call or at the submission of its verify
\* transaction only for the event it is handling, after reading, in this run,
\* that event's payment as Submitted with the agent as verifier; the step in
\* which the getter answers goes on to the oracle exactly when the answer
\* shows that, and otherwise passes to the next event with no oracle call and
\* no transaction; and a transaction is handed to the wallet service only by
\* a run that has so read the payment, for that payment.
C30_VerifyOnlyAfterRead ==
    /\ [](\A r \in RunIds :
            agentRuns[r].pc \in {"verifyProof", "createContractExecutionTransaction"} =>
                /\ agentRuns[r].next \in 1..Len(agentRuns[r].events)
                /\ agentRuns[r].events[agentRuns[r].next].paymentId
                      \in agentRuns[r].processedPaymentIds
                /\ ReadAsMine(agentRuns[r]))
    /\ [][\A r \in RunIds :
            LET run == agentRuns[r]
                new == agentRuns'[r]
            IN
            /\ (run.pc # "verifyProof" /\ new.pc = "verifyProof") =>
                    /\ run.pc = "contract.payments"
                    /\ new.events = run.events /\ new.next = run.next
            /\ (run.pc = "contract.payments" /\ new # run /\ new.pc # "idle") =>
                    IF ReadAsMine(new)
                    THEN new.pc = "verifyProof"
                    ELSE /\ new.pc = "loop" /\ new.next = run.next + 1
                         /\ new.oracleCalls = run.oracleCalls
                         /\ agentTxs' = agentTxs
            /\ (new.pc = "createContractExecutionTransaction"
                    /\ run.pc # "createContractExecutionTransaction") =>
                    run.pc = "verifyProof"]_vars
    /\ [][Len(agentTxs') > Len(agentTxs) =>
            \E r \in RunIds :
                /\ agentRuns[r].pc = "createContractExecutionTransaction"
                /\ ReadAsMine(agentRuns[r])
                /\ agentTxs' = Append(agentTxs,
                      [paymentId |-> agentRuns[r].events[agentRuns[r].next].paymentId,
                       isApproved |-> agentRuns[r].isApproved,
                       proof |-> agentRuns[r].events[agentRuns[r].next].proof,
                       run |-> r, threw |-> agentRuns[r].threw])]_vars

\* C30 witness: one run has handed in a verify transaction for payment 1, read
\* as Submitted and the agent's; a second run, given the same event, has read
\* the payment as Refunded and passed it over without an oracle call.
C30_Witness ==
    /\ Len(agentTxs) = 1 /\ agentTxs[1].run = 1 /\ agentTxs[1].paymentId = 1
    /\ Len(agentRuns[2].events) = 1 /\ agentRuns[2].events[1].paymentId = 1
    /\ agentRuns[2].pc = "loop" /\ agentRuns[2].next = 2
    /\ agentRuns[2].payment = [status |-> 4, verifier |-> AgentAddress]
    /\ agentRuns[2].oracleCalls = <<>>

\* Number of times `x` occurs in a sequence.
Occurrences(seq, x) == Cardinality({k \in 1..Len(seq) : seq[k] = x})

\* C31: in every poll run, for every payment id, the oracle has been called at
\* most once and at most one verify transaction has been handed in, the
\* transaction only after the oracle call, whatever the number of
\* ProofSubmitted events of that id in the run's window.
C31_OncePerIdPerRun ==
    \A r \in RunIds, id \in PaymentIds :
        /\ Occurrences(agentRuns[r].oracleCalls, id) <= 1
        /\ Occurrences(agentRuns[r].txs, id) <= Occurrences(agentRuns[r].oracleCalls, id)

\* C31 witness: a run whose window holds two ProofSubmitted events of payment
\* 1 has passed both, with one oracle call and one transaction handed in.
C31_Witness ==
    \E r \in RunIds :
        /\ Len(agentRuns[r].events) = 2
        /\ \A k \in 1..2 : agentRuns[r].events[k].paymentId = 1
        /\ agentRuns[r].pc = "loop" /\ agentRuns[r].next = 3
        /\ agentRuns[r].oracleCalls = <<1>> /\ agentRuns[r].txs = <<1>>
        /\ agentTxs # <<>> /\ agentTxs[Len(agentTxs)].run = r

\* Number of PaymentVerified events of a payment: the verify calls that have
\* taken effect on it.
Verifications(id) ==
    Cardinality({k \in 1..Len(events[id]) : events[id][k].name = "PaymentVerified"})

\* C32: for every payment the verify calls that have taken effect are at most
\* as many as the submitProof calls that have, whoever sends verify and
\* however often; and a verify sent when no payment is Submitted is rejected
\* and changes nothing on the ledger.
C32_AtMostOnceEffect ==
    /\ [](\A id \in PaymentIds : Verifications(id) <= Submissions(id))
    /\ [][(/\ ~frame.open
           /\ lastCall'.op = "verify"
           /\ \A id \in PaymentIds : payments[id].status # Submitted) =>
                /\ ledger' = ledger
                /\ lastCall'.result \notin {"ok", "pending"}]_vars

\* C32 witness: the one proof of payment 1 has been verified, and a second
\* verify for it has just been rejected with InvalidStatus.
C32_Witness ==
    /\ ~frame.open
    /\ lastCall = [op |-> "verify", result |-> "InvalidStatus"]
    /\ Submissions(1) = 1 /\ Verifications(1) = 1

\* Payment `id` is Submitted with the agent as its verifier, and the log of
\* its ProofSubmitted event is among the logs at the contract's address.
AwaitsAgent(id) ==
    /\ payments[id].status = Submitted
    /\ payments[id].verifier = AgentAddress
    /\ \E k \in 1..Len(proofLog) : proofLog[k].paymentId = id

\* A verify transaction for payment `id` has been handed in by the agent.
VerifyHandedIn(id) == \E k \in 1..Len(agentTxs) : agentTxs[k].paymentId = id

\* C36 as stated: under fair scheduling, whenever a payment is Submitted with
\* the agent as its verifier and its event in the window, it either leaves
\* Submitted or a verify transaction for it is handed in by the agent.
C36_EventuallySubmitted ==
    \A id \in OnePayment :
        AwaitsAgent(id) ~> (payments[id].status # Submitted \/ VerifyHandedIn(id))

RECURSIVE FirstFailing(_)
\* The error of the first check of a list that fails; "ok" when none does.
\* A check is a pair <<error, whether it fails>>.
FirstFailing(checks) ==
    IF checks = <<>> THEN "ok"
    ELSE IF Head(checks)[2] THEN Head(checks)[1]
    ELSE FirstFailing(Tail(checks))

\* The checks of each operation in the order the claim lists them, for a
\* caller, the record the call names and createPayment's arguments.
ListedCreate(value, _verifier, _deadline) ==
    << <<"InvalidAmount", value = 0>>,
       <<"InvalidDeadline", _deadline <= now>>,
       <<"InvalidAddress", _verifier = ZeroAddr>> >>
ListedAccept(sender, id) ==
    << <<"PaymentNotFound", ~Exists(id)>>,
       <<"InvalidStatus", payments[id].status # Created>>,
       <<"DeadlineExpired", payments[id].deadline <= now>>,
       <<"InvalidAddress", sender = payments[id].principal>> >>
ListedSubmit(sender, id) ==
    << <<"PaymentNotFound", ~Exists(id)>>,
       <<"NotAuthorized", sender # payments[id].worker>>,
       <<"InvalidStatus", payments[id].status # Accepted>>,
       <<"DeadlineExpired", payments[id].deadline <= now>> >>
ListedVerify(sender, id) ==
    << <<"PaymentNotFound", ~Exists(id)>>,
       <<"NotAuthorized", sender # payments[id].verifier>>,
       <<"InvalidStatus", payments[id].status # Submitted>> >>
ListedRefund(sender, id) ==
    << <<"PaymentNotFound", ~Exists(id)>>,
       <<"InvalidStatus", payments[id].status \in Terminal>>,
       <<"DeadlineNotExpired", payments[id].deadline > now>> >>
ListedCancel(sender, id) ==
    << <<"PaymentNotFound", ~Exists(id)>>,
       <<"NotAuthorized", sender # payments[id].principal>>,
       <<"InvalidStatus", payments[id].status # Created>> >>

\* The check that precedes the listed ones in the four nonReentrant functions.
Guard == << <<"ReentrancyGuardReentrantCall", locked>> >>

\* The ids createPayment has never assigned.
Unassigned == {id \in PaymentIds : id = 0 \/ id > paymentCounter}

\* The errors a rejected call of each operation may report.
ErrorsOf(op) ==
    CASE op = "createPayment" ->
            {"ReentrancyGuardReentrantCall", "InvalidAmount", "InvalidDeadline", "InvalidAddress"}
      [] op = "acceptPayment" ->
            {"PaymentNotFound", "InvalidStatus", "DeadlineExpired", "InvalidAddress"}
      [] op = "submitProof" ->
            {"PaymentNotFound", "NotAuthorized", "InvalidStatus", "DeadlineExpired"}
      [] op = "verify" ->
            {"ReentrancyGuardReentrantCall", "PaymentNotFound", "NotAuthorized",
             "InvalidStatus", "TransferFailed"}
      [] op = "refundOnTimeout" ->
            {"ReentrancyGuardReentrantCall", "PaymentNotFound", "InvalidStatus",
             "DeadlineNotExpired", "TransferFailed"}
      [] op = "cancelPayment" ->
            {"ReentrancyGuardReentrantCall", "PaymentNotFound", "NotAuthorized",
             "InvalidStatus", "TransferFailed"}
      [] OTHER -> {}

\* C37 as stated: every call is decided by the first failing check of the
\* listed order of its operation, and a call on an id never assigned fails
\* with PaymentNotFound.
C37_Original ==
    /\ \A v \in 0..MaxAmount, ver \in {ZeroAddr} \cup Addrs, d \in 0..(MaxTime + 1) :
          createPaymentCheck("alice", v, ver, d) = FirstFailing(ListedCreate(v, ver, d))
    /\ \A s \in Addrs, id \in PaymentIds :
          /\ acceptPaymentCheck(s, id) = FirstFailing(ListedAccept(s, id))
          /\ submitProofCheck(s, id) = FirstFailing(ListedSubmit(s, id))
          /\ verifyCheck(s, id) = FirstFailing(ListedVerify(s, id))
          /\ refundOnTimeoutCheck(s, id) = FirstFailing(ListedRefund(s, id))
          /\ cancelPaymentCheck(s, id) = FirstFailing(ListedCancel(s, id))
    /\ \A s \in Addrs, id \in Unassigned :
          /\ acceptPaymentCheck(s, id) = "PaymentNotFound"
          /\ submitProofCheck(s, id) = "PaymentNotFound"
          /\ verifyCheck(s, id) = "PaymentNotFound"
          /\ refundOnTimeoutCheck(s, id) = "PaymentNotFound"
          /\ cancelPaymentCheck(s, id) = "PaymentNotFound"

\* C37 as amended: createPayment, verify, refundOnTimeout and cancelPayment
\* check the re-entrancy guard before the listed checks, so that inside a
\* payout they fail with ReentrancyGuardReentrantCall whatever the id;
\* otherwise every call is decided by the first failing check of the listed
\* order, a rejected call reports one error of its operation's list, a call
\* on an id never assigned fails with PaymentNotFound (always for
\* acceptPayment and submitProof, outside a payout for the others), and
\* TransferFailed is reported only when every check has passed, leaving the
\* state as it was.
C37_FirstFailingCheck ==
    /\ \A v \in 0..MaxAmount, ver \in {ZeroAddr} \cup Addrs, d \in 0..(MaxTime + 1) :
          createPaymentCheck("alice", v, ver, d)
             = FirstFailing(Guard \o ListedCreate(v, ver, d))
    /\ \A s \in Addrs, id \in PaymentIds :
          /\ acceptPaymentCheck(s, id) = FirstFailing(ListedAccept(s, id))
          /\ submitProofCheck(s, id) = FirstFailing(ListedSubmit(s, id))
          /\ verifyCheck(s, id) = FirstFailing(Guard \o ListedVerify(s, id))
          /\ refundOnTimeoutCheck(s, id) = FirstFailing(Guard \o ListedRefund(s, id))
          /\ cancelPaymentCheck(s, id) = FirstFailing(Guard \o ListedCancel(s, id))
    /\ \A s \in Addrs, id \in Unassigned :
          /\ acceptPaymentCheck(s, id) = "PaymentNotFound"
          /\ submitProofCheck(s, id) = "PaymentNotFound"
          /\ verifyCheck(s, id)
                = IF locked THEN "ReentrancyGuardReentrantCall" ELSE "PaymentNotFound"
          /\ refundOnTimeoutCheck(s, id)
                = IF locked THEN "ReentrancyGuardReentrantCall" ELSE "PaymentNotFound"
          /\ cancelPaymentCheck(s, id)
                = IF locked THEN "ReentrancyGuardReentrantCall" ELSE "PaymentNotFound"
    /\ lastCall.result \notin {"ok", "pending"} => lastCall.result \in ErrorsOf(lastCall.op)
    /\ lastCall.result = "TransferFailed" =>
          /\ ~frame.open
          /\ lastCall.id \notin Unassigned
          /\ CASE lastCall.op = "verify" -> verifyCheck(lastCall.sender, lastCall.id) = "ok"
               [] lastCall.op = "refundOnTimeout" ->
                     refundOnTimeoutCheck(lastCall.sender, lastCall.id) = "ok"
               [] lastCall.op = "cancelPayment" ->
                     cancelPaymentCheck(lastCall.sender, lastCall.id) = "ok"
               [] OTHER -> FALSE

\* C37 witness: a submitProof on a Created payment past its deadline, for
\* which the caller check, the status check and the deadline check all fail,
\* has been rejected with the first of them, NotAuthorized.
C37_Witness ==
    /\ ~frame.open
    /\ lastCall = [op |-> "submitProof", result |-> "NotAuthorized"]
    /\ paymentCounter = 1
    /\ payments[1].status = Created /\ payments[1].deadline <= now

\* Number of transfers out of the contract recorded in `log`, over all ids.
TransfersIn(log) ==
    Len(log[0]) + Len(log[1]) + Len(log[2])

\* C38: while the external transfer of a payout is in progress the payment
\* paid out is already Released or Refunded, and a call into createPayment,
\* verify, refundOnTimeout or cancelPayment, for any payment id and from any
\* caller, is rejected by the re-entrancy guard; the transaction has made one
\* transfer and no step inside it moves funds or makes another; acceptPayment
\* and submitProof are decided inside the transfer as outside it and move no
\* funds.
C38_NoSecondTransfer ==
    /\ [](frame.open =>
            /\ locked
            /\ payments[frame.id].status \in Terminal
            /\ frame.saved.payments[frame.id].status \in Escrowed
            /\ TransfersIn(paidOut) = TransfersIn(frame.saved.paidOut) + 1
            /\ \A s \in Addrs, id \in PaymentIds :
                  /\ verifyCheck(s, id) = "ReentrancyGuardReentrantCall"
                  /\ refundOnTimeoutCheck(s, id) = "ReentrancyGuardReentrantCall"
                  /\ cancelPaymentCheck(s, id) = "ReentrancyGuardReentrantCall"
                  /\ acceptPaymentCheck(s, id) = VerdictOnRecord("acceptPayment", s, payments[id])
                  /\ submitProofCheck(s, id) = VerdictOnRecord("submitProof", s, payments[id])
            /\ \A s \in Addrs, v \in 0..MaxAmount, ver \in {ZeroAddr} \cup Addrs,
                  d \in 0..(MaxTime + 1) :
                  createPaymentCheck(s, v, ver, d) = "ReentrancyGuardReentrantCall")
    /\ [][(frame.open /\ frame'.open) =>
            /\ balance' = balance
            /\ paidOut' = paidOut
            /\ paymentCounter' = paymentCounter
            /\ frame' = frame]_vars

\* C38 witness: during the transfer that releases payment 1 to its worker,
\* the worker has re-entered acceptPayment on payment 2, which was accepted,
\* and no funds have moved since the transfer.
C38_Witness ==
    /\ frame.open /\ frame.call.op = "verify" /\ frame.id = 1
    /\ payments[1].status = Released
    /\ lastCall.op = "acceptPayment" /\ lastCall.result = "ok" /\ lastCall.id = 2
    /\ lastCall.sender = payments[1].worker
    /\ payments[2].status = Accepted /\ frame.saved.payments[2].status = Created
    /\ TransfersIn(paidOut) = TransfersIn(frame.saved.paidOut) + 1

\* The accounts payment `id` has been paid out to.
PaidTo(id) == {paidOut[id][k].to : k \in 1..Len(paidOut[id])}

\* C39: outside a payout, on a Submitted payment whose deadline has passed
\* the verifier's verify and anybody's refundOnTimeout both pass their
\* checks; once one of them has made the payment Released or Refunded the
\* other fails with InvalidStatus; the amount is transferred once, to the
\* worker when Released and to the principal when Refunded; a verify(false)
\* leaves the payment Accepted, and an Accepted payment past its deadline
\* admits refundOnTimeout and no other call.
C39_VerifyRacesRefund ==
    \A id \in PaymentIds : (Exists(id) /\ ~locked) =>
        LET payment == payments[id] IN
        /\ (payment.status = Submitted /\ payment.deadline <= now) =>
              /\ verifyCheck(payment.verifier, id) = "ok"
              /\ \A s \in Addrs : refundOnTimeoutCheck(s, id) = "ok"
        /\ payment.status \in Terminal =>
              /\ verifyCheck(payment.verifier, id) = "InvalidStatus"
              /\ \A s \in Addrs : refundOnTimeoutCheck(s, id) = "InvalidStatus"
        /\ Len(paidOut[id]) <= 1
        /\ payment.status = Released => PaidTo(id) = {payment.worker}
        /\ payment.status = Refunded => PaidTo(id) = {payment.principal}
        /\ payment.status \in Escrowed => PaidTo(id) = {}
        /\ payment.worker # payment.principal
        /\ (lastCall.op = "verify" /\ lastCall.result = "ok" /\ lastCall.id = id
               /\ ~lastCall.approved) => payment.status = Accepted
        /\ (payment.status = Accepted /\ payment.deadline <= now) =>
              \A s \in Addrs :
                  /\ refundOnTimeoutCheck(s, id) = "ok"
                  /\ acceptPaymentCheck(s, id) # "ok"
                  /\ submitProofCheck(s, id) # "ok"
                  /\ verifyCheck(s, id) # "ok"
                  /\ cancelPaymentCheck(s, id) # "ok"

\* C39 witness: a payment still Submitted at its deadline was refunded by a
\* refundOnTimeout that came before the verifier's verify, which now fails
\* with InvalidStatus.
C39_Witness ==
    /\ ~frame.open /\ lastCall.op = "refundOnTimeout" /\ lastCall.result = "ok"
    /\ payments[1].status = Refunded /\ payments[1].deadline <= now
    /\ StatusOfLastEvent(1) = Refunded
    /\ Submissions(1) = 1 /\ Rejections(1) = 0
    /\ verifyCheck(payments[1].verifier, 1) = "InvalidStatus"
    /\ PaidTo(1) = {payments[1].principal}

\* The records of the proofs table that reference mirror payment i.
ProofsOf(i) ==
    {k \in 1..Len(mirrorProofs) :
        /\ mirrorProofs[k].paymentId = i
        /\ mirrorProofs[k].onChainPaymentId = mirrorPayments[i].onChainId}

\* C40: every mirror payment whose status is Submitted or Released has a
\* record in the proofs table that references it; a handleSubmitProof that
\* still has payments.markSubmitted to call has stored its proof already, and
\* when that call fails the mirror payment is left as it was.
C40_SubmittedHasProof ==
    /\ [](\A i \in 1..Len(mirrorPayments) :
            mirrorPayments[i].status \in {Submitted, Released} => ProofsOf(i) # {})
    /\ [](\A d \in inflight :
            d.h = "payments.markSubmitted" => ProofsOf(d.paymentId) # {})
    /\ [][\A d \in inflight :
            (d.h = "payments.markSubmitted" /\ inflight' = inflight \ {d})
               => \/ mirrorPayments' = mirrorPayments
                  \/ mirrorPayments' =
                        paymentsMarkSubmitted(mirrorPayments, [onChainId |-> d.onChainId], now)]_vars

\* C40 witness: the worker has submitted a proof through the page twice, a
\* rejection between; both proofs are stored, every mirror call is done and
\* the mirror payment is Submitted.
C40_Witness ==
    /\ Len(mirrorPayments) = 1
    /\ mirrorPayments[1].status = Submitted
    /\ Cardinality(ProofsOf(1)) = 2
    /\ Submissions(1) = 2
    /\ inflight = {}

====
